---- MODULE Spec2Model ----
(***************************************************************************)
(* A model of the agent runtime: the agent loop run_agent (a generator),   *)
(* the run_code tool, and the HTTP routes of main.py that share the        *)
(* message history MESSAGES with it.                                       *)
(*                                                                         *)
(* Representation.  A Python string is a sequence of fragments (one-       *)
(* character strings where the code looks at characters), so that          *)
(* concatenation is \o, truthiness is "non-empty", and startswith/strip    *)
(* are computed.  A Python list object lives in `heap`; a variable that    *)
(* holds a list holds its index in `heap`, so that rebinding a name        *)
(* (MESSAGES = []) and mutating a list (append/insert) are different.      *)
(* Each heap item is [m |-> message, by |-> who]; `by` is provenance only  *)
(* (0: a route or the system-prompt insert, t > 0: turn t of run_agent).   *)
(***************************************************************************)
EXTENDS Integers, Sequences, FiniteSets, TLC

VARIABLES
    heap,          \* list objects: heap[l] is the content of list l
    MESSAGES,      \* main.py global: the list the name MESSAGES is bound to
    pc,            \* pc[t]: where generator t of run_agent stands
    messages,      \* messages[t]: run_agent's parameter (a list reference)
    total_tokens,  \* total_tokens[t]: run_agent's local counter
    response,      \* response[t]: the last model response of turn t
    tool_idx,      \* tool_idx[t]: position in `for tool_call in message.tool_calls`
    tool_msg,      \* tool_msg[t]: run_agent's local tool_msg
    emitted,       \* emitted[t]: every event generator t has yielded, in order
    responses,     \* responses[t]: the outcome of every model call of turn t, in order
    session_usage, \* the Usage totals yielded in the session, over all turns, in order
    overlapped,    \* a turn was started while an earlier turn had not ended
    loop,          \* the turn whose generator is running on the event loop thread, or 0
    nevents,       \* HTTP requests served and model calls made so far
    rc_pc,         \* run_code called on its own: "in" before, "out" after the call
    rc_in,         \* ... what the try block of run_code produced
    rc_out,        \* ... the content blocks run_code returned
    user_sandboxes,\* tools.py: user_id -> Controller (0: no entry)
    sandbox_lock,  \* tools.py _sandbox_lock: 0 when free, else the call that holds it
    reg_calls,     \* the calls of the tools.py functions made so far, with their locals
    ctl,           \* every ModalSandbox constructed so far
    gen,           \* gen[u]: how often u's entry was reset/re-initialised and expired
    request,       \* the request being served: its route and the user it came from
    tasks,         \* the background tasks scheduled by that request
    turn_user,     \* turn_user[t]: the user whose GET /agent-stream started turn t
    stream,        \* stream[t]: event_stream t is open, ended, raised or cancelled
    sse,           \* sse[t]: the SSE events event_stream t has yielded, by event name
    consumed,      \* consumed[t]: events of generator t the for loop body has handled
    REQ,           \* the lines of the request file /modal/io/stdin.txt
    drv_pos,       \* the lines tail_f has handed to the Driver's loop
    drv_globals,   \* driver_program.py `globals`: the environment of the snippets
    RES,           \* the response files written, by command_id
    drv_state,     \* the Driver process: "running", or "stopped" by an exception
    drv_trace,     \* every statement the Driver has run to completion, in order
    poll,          \* the call of ModalSandbox.run_code in progress, if any
    procs,         \* the sandbox processes the host has started, by object id
    cons,          \* the calls of ModalSandbox(...) made so far, with their locals
    osf,           \* a use of the context manager _open_sandbox_file, with its locals
    subs,          \* the calls of ModalSandbox.run_code on one sandbox, with their locals
    drv_cur,       \* the response file the Driver has opened and not yet written
    stdin_txt,     \* what has been written to the request file, write by write
    wr,            \* the call of run_code that is writing to the request file
    tl,            \* the Driver's reader of the request file and what it parsed
    now,           \* the time the TTLCaches' timer reads, in units of 600 s
    links,         \* the entries of user_sandboxes and user_messages and their expiry times
    touched,       \* the time of the last read or write of each entry that is present
    fig_globals,   \* the Driver's globals: the address of the figure bound to each name
    fig_at,        \* the figure object that lives at each address, by creation number
    captured_ids,  \* driver_program.py _captured_ids
    fig_out,       \* the plotly_htmls of the responses written, as figure numbers
    fig_bound      \* for each figure, the first snippet after which it was bound

reg_vars == <<user_sandboxes, sandbox_lock, reg_calls, ctl, gen>>

srv_vars == <<request, tasks, turn_user, stream, sse, consumed>>

drv_vars == <<REQ, drv_pos, drv_globals, RES, drv_state, drv_trace>>

ctl_vars == <<poll>>

\* the host of the sandbox processes and the constructor calls
sbx_vars == <<procs, cons>>

\* file operations on the sandbox's file system
\* the request file as the writes of the Controller and the reads of the Driver see it
tail_vars == <<stdin_txt, wr, tl>>

\* the two TTLCaches of tools.py and their timer
ttl_vars == <<now, links, touched>>

\* the Driver's capture of Plotly figures
fig_vars == <<fig_globals, fig_at, captured_ids, fig_out, fig_bound>>

more_vars == <<tail_vars, ttl_vars, fig_vars>>

io_vars == <<osf, subs, drv_cur, more_vars>>

ext_vars == <<reg_vars, srv_vars, drv_vars, ctl_vars, sbx_vars, io_vars>>

vars == <<heap, MESSAGES, pc, messages, total_tokens, response, tool_idx, tool_msg,
          emitted,
          responses, session_usage, overlapped, loop, nevents, rc_pc, rc_in, rc_out,
          ext_vars>>

agent_vars == <<heap, MESSAGES, pc, messages, total_tokens, response, tool_idx, tool_msg,
          emitted,
                responses, session_usage, overlapped, loop, nevents>>

rc_vars == <<rc_pc, rc_in, rc_out>>

-----------------------------------------------------------------------------
(* Bounds of the model.                                                    *)

\* HTTP requests (GET /, POST /clear, POST /chat, GET /agent-stream) and model
\* calls in a run, taken together.
MaxEvents == 4
\* Images in one sandbox result (run_code on its own).
MaxImages == 2
\* Plotly fragments in one sandbox result (run_code on its own).
MaxPlots == 2
\* Calls of get_sandbox, reset_sandbox, init_sandbox and run_code in a run.
MaxCalls == 3
\* Lines appended to the request file of one Driver process.
MaxRequests == 3
\* reads of a response file that ModalSandbox.run_code attempts before it gives up
\* (MAXIMUM_OPEN_FILE_ATTEMPTS is 3000 in the source: 300 s at one read per 0.1 s)
MaxPolls == 3
\* calls of ModalSandbox.run_code made on one sandbox
MaxSubmits == 2

\* the user ids of the browsers that talk to the server
Users == {"u1", "u2"}

-----------------------------------------------------------------------------
(* Strings and dictionaries.                                               *)

Str(s) == <<s>>

EmptyStr == <<>>

\* dict.get(key, default)
Get(d, key, default) == IF key \in DOMAIN d THEN d[key] ELSE default

\* str.startswith(prefix)
StartsWith(s, prefix) ==
    /\ Len(s) >= Len(prefix)
    /\ SubSeq(s, 1, Len(prefix)) = prefix

IsSpace(c) == c \in {" ", "\t", "\n"}

RECURSIVE LStrip(_)
LStrip(s) == IF s # <<>> /\ IsSpace(Head(s)) THEN LStrip(Tail(s)) ELSE s

RECURSIVE RStrip(_)
RStrip(s) ==
    IF s # <<>> /\ IsSpace(s[Len(s)]) THEN RStrip(SubSeq(s, 1, Len(s) - 1)) ELSE s

\* str.strip()
Strip(s) == RStrip(LStrip(s))

\* sep.join(parts)
RECURSIVE Join(_, _)
Join(sep, parts) ==
    IF parts = <<>> THEN <<>>
    ELSE IF Len(parts) = 1 THEN parts[1]
    ELSE parts[1] \o sep \o Join(sep, Tail(parts))

\* s occurs in t as a contiguous run (Python's `s in t`)
Contains(t, s) ==
    \E i \in 0..(Len(t) - Len(s)) : SubSeq(t, i + 1, i + Len(s)) = s

\* [f(x) for x in xs]
RECURSIVE MapSeq(_, _)
MapSeq(F(_), xs) == IF xs = <<>> THEN <<>> ELSE <<F(Head(xs))>> \o MapSeq(F, Tail(xs))

-----------------------------------------------------------------------------
(* agents/tools.py: run_code.                                              *)

PNG_MAGIC == <<"i", "V", "B", "O", "R">>

\* line 127
MimeTypeJpegAlways(img_base64) == "image/jpeg"
mime_type(img_base64) == IF StartsWith(img_base64, PNG_MAGIC) THEN "image/png" ELSE "image/jpeg"

\* lines 128-133: the data URL is kept as its parts
ImageBlock(img_base64) ==
    [type |-> "image_url",
     image_url |-> [mime |-> mime_type(img_base64), base64 |-> img_base64]]

\* line 135
PlotlyBlock(html) == [type |-> "plotly_html", html |-> html]

\* lines 116-121
text_content(result) ==
    LET p1 == IF Get(result, "stdout", EmptyStr) # EmptyStr
              THEN << Str("stdout:\n") \o result["stdout"] >> ELSE <<>>
        p2 == IF Get(result, "stderr", EmptyStr) # EmptyStr
              THEN << Str("stderr:\n") \o result["stderr"] >> ELSE <<>>
        text_parts == p1 \o p2
    IN  IF text_parts # <<>> THEN Join(Str("\n\n"), text_parts) ELSE Str("(no output)")

\* lines 108-113: what the try block leaves in `result`.  `outcome` is what
\* current_user_id.get() / get_sandbox / sandbox.run_code did: returned a
\* dictionary, or raised an exception whose str() is outcome.err.
TryResult(outcome) ==
    IF outcome.raised
    THEN [stdout |-> EmptyStr, stderr |-> outcome.err, images |-> <<>>]
    ELSE outcome.result

\* lines 123-136 with the blocks in another order (a plausible slip)
ContentBlocksPlotsFirst(result) ==
    << [type |-> "text", text |-> text_content(result)] >>
        \o MapSeq(PlotlyBlock, Get(result, "plotly_htmls", <<>>))
        \o MapSeq(ImageBlock, Get(result, "images", <<>>))

\* lines 123-136
ContentBlocks(result) ==
    << [type |-> "text", text |-> text_content(result)] >>
        \o MapSeq(ImageBlock, Get(result, "images", <<>>))
        \o MapSeq(PlotlyBlock, Get(result, "plotly_htmls", <<>>))

\* lines 103-136
run_code(outcome) == ContentBlocks(TryResult(outcome))

-----------------------------------------------------------------------------
(* The model gateway (litellm.completion) as run_agent sees it.            *)

SYSTEM_PROMPT == Str("SYSTEM_PROMPT")

\* function.arguments is a JSON string written by the model
ARGS_OK == "{\"code\": \"1\"}"
ARGS_EMPTY == "{}"
ARGS_MALFORMED == "{\"code\": "

NoArgs == [x \in {} |-> 0]

\* json.loads on the argument strings of the model
json_loads(s) ==
    IF s = ARGS_OK THEN [ok |-> TRUE, value |-> [code |-> Str("1")]]
    ELSE IF s = ARGS_EMPTY THEN [ok |-> TRUE, value |-> NoArgs]
    ELSE [ok |-> FALSE, value |-> NoArgs]

ToolCall(id, name, arguments) == [id |-> id, name |-> name, arguments |-> arguments]

call_a == ToolCall("call_a", "run_code", ARGS_OK)
call_b == ToolCall("call_b", "run_code", ARGS_OK)
call_x == ToolCall("call_x", "run_code", ARGS_EMPTY)

\* message.tool_calls of a response (absent or empty: <<>>)
NoToolCalls == <<>>

\* response.usage: absent, present with total_tokens None, present with a count
UsageAbsent == [kind |-> "absent", n |-> 0]
UsageNull == [kind |-> "null", n |-> 0]
UsageOf(k) == [kind |-> "int", n |-> k]

\* response.choices[0].message: the gateway's message object; thinking_blocks
\* stands for its opaque signature/thought fields
GatewayMessage(tcs) ==
    [role |-> "assistant",
     content |-> IF tcs = <<>> THEN Str("answer") ELSE Str("thinking"),
     tool_calls |-> tcs,
     thinking_blocks |-> "signature"]

Response(u, tcs) == [usage |-> u, message |-> GatewayMessage(tcs)]

\* the responses the gateway may return to a model call
Responses ==
    { Response(UsageOf(1), NoToolCalls),
      Response(UsageNull, NoToolCalls),
      Response(UsageAbsent, NoToolCalls),
      Response(UsageOf(1), <<call_a, call_b>>),
      Response(UsageNull, <<call_x>>) }

NoResponse == Response(UsageAbsent, NoToolCalls)

\* the outcome of a model call that raised, as recorded in `responses`
ModelError == [error |-> "model call failed"]

IsResponse(r) == "message" \in DOMAIN r

\* what the try block of run_code can produce when run_agent dispatches a call
OkOutcome == [raised |-> FALSE, err |-> EmptyStr,
              result |-> [stdout |-> Str("42\n"), stderr |-> EmptyStr, images |-> <<>>,
                          plotly_htmls |-> <<>>]]
RaisedOutcome == [raised |-> TRUE, err |-> Str("Execution error"),
                  result |-> [stdout |-> EmptyStr]]
AgentOutcomes == {OkOutcome, RaisedOutcome}

-----------------------------------------------------------------------------
(* List objects.                                                           *)

\* an element of a list: the message, the turn that added it (0 for a route) and
\* the list MESSAGES named when it was added
Item(m, who) == [m |-> m, by |-> who, cur |-> MESSAGES]

\* list.append(m) on list l
ListAppendFront(h, l, m, who) == [h EXCEPT ![l] = <<Item(m, who)>> \o @]
ListAppendCurrent(h, l, m, who) == [h EXCEPT ![MESSAGES] = Append(@, Item(m, who))]
ListAppend(h, l, m, who) == [h EXCEPT ![l] = Append(@, Item(m, who))]

\* list.insert(0, m) on list l
ListInsert0(h, l, m, who) == [h EXCEPT ![l] = <<Item(m, who)>> \o @]

\* a new empty list object; its reference is Len(h) + 1
NewList(h) == Append(h, <<>>)

-----------------------------------------------------------------------------
(* agents/agent.py: run_agent, one generator per turn.                     *)

SystemMsg == [role |-> "system", content |-> SYSTEM_PROMPT]

Turns == 1..Len(pc)

\* line 31
NeedsSystemAlways(list) == TRUE
NeedsSystem(list) == list = <<>> \/ list[1].m.role # "system"

\* line 47
HasUsageWhenCounted(usage) == usage.kind = "int"
HasUsage(usage) == usage.kind # "absent"

\* line 48
AddTokensOverwrite(total, usage) == IF usage.kind = "int" THEN usage.n ELSE 0
AddTokens(total, usage) == total + (IF usage.kind = "int" THEN usage.n ELSE 0)

\* lines 39-44: where the generator goes when the model call raises (no handler:
\* the exception leaves run_agent)
AfterModelErrorRetries == "call"
AfterModelError == "model_error"

\* line 55
IsFinal(message) == message.tool_calls = <<>>

\* line 56
final_msg(message) == [role |-> "assistant", content |-> message.content]

\* lines 56 and 62: the object that is appended and then yielded
AssistantMsg(message) == IF IsFinal(message) THEN final_msg(message) ELSE message

\* line 59: where the generator goes when it is resumed after the final yield
AfterFinalLoops == "call"
AfterFinal == "done"

\* line 66: the for loop has another tool call after position i
HasNextNever(i, tool_calls) == FALSE
HasNext(i, tool_calls) == i < Len(tool_calls)

\* lines 71-75
ToolMsg(tool_call, result) ==
    [role |-> "tool", tool_call_id |-> tool_call.id, content |-> result]

TOOL_FUNCTIONS == {"run_code"}

\* lines 67-69 raise: json.loads on malformed arguments, TOOL_FUNCTIONS[name] on an
\* unknown name, run_code(**args) on arguments other than {code}
InvocationRaises(tool_call) ==
    \/ ~json_loads(tool_call.arguments).ok
    \/ tool_call.name \notin TOOL_FUNCTIONS
    \/ DOMAIN json_loads(tool_call.arguments).value # {"code"}

MsgEvent(m) == [type |-> "message", msg |-> m]
UsageEvent(n) == [type |-> "usage", total |-> n]

Ended(t) == pc[t] \in {"done", "model_error", "tool_error", "closed"}

\* the generator is suspended at a yield (the consumer holds the last event)
Suspended(t) ==
    /\ loop # t
    /\ \/ pc[t] \in {"tool", "final"}
       \/ pc[t] = "call" /\ emitted[t] # <<>>
       \/ pc[t] = "msg" /\ HasUsage(response[t].usage)

\* generator t may take a step: it is running, or it is suspended and the event
\* loop is free to resume it.  run_agent is a synchronous generator driven from the
\* event loop thread (main.py 353-355), so between two yields no other turn runs;
\* the synchronous routes run on worker threads and interleave anywhere.
Runs(t) == loop = t \/ (loop = 0 /\ Suspended(t))

\* GET /agent-stream (main.py 348-355) up to the first model call of
\* run_agent(MESSAGES) (agent.py 31-35)
get ==
    /\ loop = 0
    /\ loop' = Len(pc) + 1
    /\ nevents < MaxEvents
    /\ nevents' = nevents + 1
    /\ LET l == MESSAGES IN
        /\ heap' = IF NeedsSystem(heap[l]) THEN ListInsert0(heap, l, SystemMsg, 0) ELSE heap
        /\ messages' = Append(messages, l)
    /\ pc' = Append(pc, "call")
    /\ total_tokens' = Append(total_tokens, 0)
    /\ response' = Append(response, NoResponse)
    /\ tool_idx' = Append(tool_idx, 0)
    /\ tool_msg' = Append(tool_msg, ToolMsg(call_a, <<>>))
    /\ emitted' = Append(emitted, <<>>)
    /\ responses' = Append(responses, <<>>)
    /\ overlapped' = (overlapped \/ \E t \in Turns : ~Ended(t))
    /\ UNCHANGED <<MESSAGES, session_usage>>

\* lines 39-49: the model call returns a response; its usage, when there is one, is
\* added to total_tokens and a usage event is yielded
ModelCall(t) ==
    /\ pc[t] = "call"
    /\ Runs(t)
    /\ nevents < MaxEvents
    /\ nevents' = nevents + 1
    /\ \E r \in Responses :
        /\ response' = [response EXCEPT ![t] = r]
        /\ responses' = [responses EXCEPT ![t] = Append(@, r)]
        /\ IF HasUsage(r.usage)
           THEN LET n == AddTokens(total_tokens[t], r.usage) IN
                /\ total_tokens' = [total_tokens EXCEPT ![t] = n]
                /\ emitted' = [emitted EXCEPT ![t] = Append(@, UsageEvent(n))]
                /\ session_usage' = Append(session_usage, n)
                /\ loop' = 0
           ELSE /\ UNCHANGED <<total_tokens, emitted, session_usage>>
                /\ loop' = t
    /\ pc' = [pc EXCEPT ![t] = "msg"]
    /\ UNCHANGED <<heap, MESSAGES, messages, tool_idx, tool_msg, overlapped>>

\* lines 39-44: the model call raises; nothing in run_agent catches it
ModelCallFails(t) ==
    /\ pc[t] = "call"
    /\ Runs(t)
    /\ loop' = 0
    /\ nevents < MaxEvents
    /\ nevents' = nevents + 1
    /\ responses' = [responses EXCEPT ![t] = Append(@, ModelError)]
    /\ pc' = [pc EXCEPT ![t] = AfterModelError]
    /\ UNCHANGED <<heap, MESSAGES, messages, total_tokens, response, tool_idx, tool_msg,
                   emitted, session_usage, overlapped>>

\* lines 52-57 and 62: messages.append
AppendAssistant(t) ==
    /\ pc[t] = "msg"
    /\ Runs(t)
    /\ loop' = t
    /\ heap' = ListAppend(heap, messages[t], AssistantMsg(response[t].message), t)
    /\ pc' = [pc EXCEPT ![t] = "emit"]
    /\ UNCHANGED <<MESSAGES, messages, total_tokens, response, tool_idx, tool_msg, emitted,
                   responses, session_usage, overlapped, nevents>>

\* lines 58 and 63: yield
YieldAssistant(t) ==
    /\ pc[t] = "emit"
    /\ loop' = 0
    /\ emitted' = [emitted EXCEPT ![t] = Append(@, MsgEvent(AssistantMsg(response[t].message)))]
    /\ pc' = [pc EXCEPT ![t] = IF IsFinal(response[t].message) THEN "final" ELSE "tool"]
    /\ tool_idx' = [tool_idx EXCEPT ![t] = 1]
    /\ UNCHANGED <<heap, MESSAGES, messages, total_tokens, response, tool_msg, responses,
                   session_usage, overlapped, nevents>>

\* line 59: resumed after the final yield, the generator returns
Return(t) ==
    /\ pc[t] = "final"
    /\ Runs(t)
    /\ loop' = IF AfterFinal = "done" THEN 0 ELSE t
    /\ pc' = [pc EXCEPT ![t] = AfterFinal]
    /\ UNCHANGED <<heap, MESSAGES, messages, total_tokens, response, tool_idx, tool_msg,
                   emitted, responses, session_usage, overlapped, nevents>>

\* lines 66-76: one tool call is invoked and its tool message appended
ToolStep(t) ==
    /\ pc[t] = "tool"
    /\ Runs(t)
    /\ loop' = t
    /\ LET tool_call == response[t].message.tool_calls[tool_idx[t]] IN
        /\ ~InvocationRaises(tool_call)
        /\ \E outcome \in AgentOutcomes :
            LET msg == ToolMsg(tool_call, run_code(outcome)) IN
            /\ tool_msg' = [tool_msg EXCEPT ![t] = msg]
            /\ heap' = ListAppend(heap, messages[t], msg, t)
    /\ pc' = [pc EXCEPT ![t] = "temit"]
    /\ UNCHANGED <<MESSAGES, messages, total_tokens, response, tool_idx, emitted,
                   responses, session_usage, overlapped, nevents>>

\* lines 67-69: the invocation raises; nothing in run_agent catches it
ToolRaises(t) ==
    /\ pc[t] = "tool"
    /\ Runs(t)
    /\ loop' = 0
    /\ InvocationRaises(response[t].message.tool_calls[tool_idx[t]])
    /\ pc' = [pc EXCEPT ![t] = "tool_error"]
    /\ UNCHANGED <<heap, MESSAGES, messages, total_tokens, response, tool_idx, tool_msg,
                   emitted, responses, session_usage, overlapped, nevents>>

\* line 77: yield tool_msg; resumed, the for loop goes on or the while loop restarts
YieldTool(t) ==
    /\ pc[t] = "temit"
    /\ loop' = 0
    /\ emitted' = [emitted EXCEPT ![t] = Append(@, MsgEvent(tool_msg[t]))]
    /\ IF HasNext(tool_idx[t], response[t].message.tool_calls)
       THEN /\ tool_idx' = [tool_idx EXCEPT ![t] = @ + 1]
            /\ pc' = [pc EXCEPT ![t] = "tool"]
       ELSE /\ tool_idx' = tool_idx
            /\ pc' = [pc EXCEPT ![t] = "call"]
    /\ UNCHANGED <<heap, MESSAGES, messages, total_tokens, response, tool_msg, responses,
                   session_usage, overlapped, nevents>>

\* the consumer drops the generator while it is suspended at a yield
\* (the client of the SSE stream disconnects)
Disconnect(t) ==
    /\ Suspended(t)
    /\ loop = 0
    /\ loop' = 0
    /\ pc' = [pc EXCEPT ![t] = "closed"]
    /\ UNCHANGED <<heap, MESSAGES, messages, total_tokens, response, tool_idx, tool_msg,
                   emitted, responses, session_usage, overlapped, nevents>>

-----------------------------------------------------------------------------
(* main.py: the routes.                                                    *)

\* the form field `message` of POST /chat
ChatInputs == { <<>>, <<" ">>, <<"H", "i">> }

turn_vars == <<pc, messages, total_tokens, response, tool_idx, tool_msg, emitted,
               responses, session_usage, overlapped, loop>>

\* GET / (lines 255-259): MESSAGES = []
index ==
    /\ nevents < MaxEvents
    /\ nevents' = nevents + 1
    /\ heap' = NewList(heap)
    /\ MESSAGES' = Len(heap) + 1
    /\ UNCHANGED turn_vars

\* POST /clear (lines 310-317): MESSAGES = []
clear ==
    /\ nevents < MaxEvents
    /\ nevents' = nevents + 1
    /\ heap' = NewList(heap)
    /\ MESSAGES' = Len(heap) + 1
    /\ UNCHANGED turn_vars

\* line 323
IsBlank(message) == Strip(message) = <<>>

\* line 327
UserMsg(message) == [role |-> "user", content |-> message]

\* POST /chat (lines 320-345); a blank message changes nothing
chat ==
    /\ nevents < MaxEvents
    /\ \E message \in ChatInputs :
        IF IsBlank(message)
        THEN UNCHANGED <<heap, nevents>>
        ELSE /\ heap' = ListAppend(heap, MESSAGES, UserMsg(message), 0)
             /\ nevents' = nevents + 1
    /\ UNCHANGED <<MESSAGES>>
    /\ UNCHANGED turn_vars

-----------------------------------------------------------------------------
(* The specification of the server: routes and agent turns.                *)

\* the registry of tools.py at import (lines 15-19): no entry, lock free
RegInit ==
    /\ user_sandboxes = [u \in Users |-> 0]
    /\ sandbox_lock = 0
    /\ reg_calls = <<>>
    /\ ctl = <<>>
    /\ gen = [u \in Users |-> [resets |-> 0, expiries |-> 0]]

NoRequest == [route |-> "none", user |-> "none"]

\* no request served yet
ServerInit ==
    /\ request = NoRequest
    /\ tasks = <<>>
    /\ turn_user = <<>>
    /\ stream = <<>>
    /\ sse = <<>>
    /\ consumed = <<>>

\* a fresh Driver process (driver_program.py 44-46) on an empty request file
DriverInit ==
    /\ REQ = <<>>
    /\ drv_pos = 0
    /\ drv_globals = [n \in {} |-> 0]
    /\ RES = [id \in {} |-> 0]
    /\ drv_state = "running"
    /\ drv_trace = <<>>

\* no call of ModalSandbox.run_code is in progress
NoPoll == [phase |-> "idle", turn |-> 0, command_id |-> 0, attempt |-> 0, stdin_opens |-> 0,
           code |-> <<>>]

PollInit == poll = NoPoll

\* the host runs no process and no ModalSandbox has been constructed
SbxInit ==
    /\ procs = <<>>
    /\ cons = <<>>

\* _open_sandbox_file is not in use
NoOpen == [state |-> "idle", max_attempts |-> 0, extra_exceptions |-> {}, attempt |-> 0,
           opens |-> 0, seen |-> <<>>, sleeps |-> 0, yields |-> 0, thrown |-> "", err |-> ""]

\* the Driver has no response file open
NoFile == [command_id |-> 0]

\* a key that is not in a TTLCache
NoLink == [present |-> FALSE, expires |-> 0]

\* no call is writing to the request file
NoWrite == [pc |-> "idle", command_id |-> 0, code |-> <<>>, calls |-> 0, last |-> ""]

\* driver_program.py line 33: the request file is open at its beginning
TailInit == [pos |-> 0, state |-> "running", parsed |-> <<>>, blanks |-> 0]

IoInit ==
    /\ osf = NoOpen
    /\ subs = <<>>
    /\ drv_cur = NoFile
    /\ stdin_txt = <<>>
    /\ wr = NoWrite
    /\ tl = TailInit
    /\ now = 0
    /\ links = [name \in {"user_sandboxes", "user_messages"} |-> [key \in Users |-> NoLink]]
    /\ touched = [name \in {"user_sandboxes", "user_messages"} |-> [key \in Users |-> 0]]
    /\ fig_globals = [name \in {"fig", "fig2"} |-> 0]
    /\ fig_at = <<>>
    /\ captured_ids = {}
    /\ fig_out = <<>>
    /\ fig_bound = <<>>

ExtIdle == RegInit /\ ServerInit /\ DriverInit /\ PollInit /\ SbxInit /\ IoInit

RcIdle ==
    /\ rc_pc = "idle"
    /\ rc_in = OkOutcome
    /\ rc_out = <<>>

\* the state after `MESSAGES = []` at import (main.py line 12)
AgentInit ==
    /\ heap = << <<>> >>
    /\ MESSAGES = 1
    /\ pc = <<>>
    /\ messages = <<>>
    /\ total_tokens = <<>>
    /\ response = <<>>
    /\ tool_idx = <<>>
    /\ tool_msg = <<>>
    /\ emitted = <<>>
    /\ responses = <<>>
    /\ session_usage = <<>>
    /\ overlapped = FALSE
    /\ loop = 0
    /\ nevents = 0

Init == AgentInit /\ RcIdle /\ ExtIdle

run_agent(t) ==
    \/ ModelCall(t)
    \/ ModelCallFails(t)
    \/ AppendAssistant(t)
    \/ YieldAssistant(t)
    \/ Return(t)
    \/ ToolStep(t)
    \/ ToolRaises(t)
    \/ YieldTool(t)
    \/ Disconnect(t)

Next ==
    \/ (index /\ UNCHANGED <<rc_vars, ext_vars>>)
    \/ (clear /\ UNCHANGED <<rc_vars, ext_vars>>)
    \/ (chat /\ UNCHANGED <<rc_vars, ext_vars>>)
    \/ (get /\ UNCHANGED <<rc_vars, ext_vars>>)
    \/ (\E t \in Turns : run_agent(t) /\ UNCHANGED <<rc_vars, ext_vars>>)

Spec == Init /\ [][Next]_vars

-----------------------------------------------------------------------------
(* run_code called on its own (tests/test_tools.py, TestRunCode).          *)

SeqsUpTo(S, n) == UNION { [1..k -> S] : k \in 0..n }

\* base64 strings of images: the PNG magic alone, a PNG, a proper prefix of the
\* magic, a JPEG
ImageSamples ==
    { PNG_MAGIC,
      PNG_MAGIC \o <<"w", "0">>,
      <<"i", "V", "B", "O">>,
      <<"/", "9", "j", "/">> }

HtmlSamples == { Str("<div>chart1</div>"), Str("<div>chart2</div>") }

TextSamples(label) == { EmptyStr, Str(label) }

\* what sandbox.run_code returns: the Driver's response object, or the dictionaries
\* without plotly_htmls that the tests return
SandboxResults ==
    { [stdout |-> o, stderr |-> e, images |-> imgs, plotly_htmls |-> plots] :
        o \in TextSamples("out"), e \in TextSamples("err"),
        imgs \in SeqsUpTo(ImageSamples, MaxImages),
        plots \in SeqsUpTo(HtmlSamples, MaxPlots) }
    \cup
    { [stdout |-> o, stderr |-> e, images |-> imgs] :
        o \in TextSamples("out"), e \in TextSamples("err"),
        imgs \in SeqsUpTo(ImageSamples, MaxImages) }

RunCodeOutcomes ==
    { [raised |-> FALSE, err |-> EmptyStr, result |-> r] : r \in SandboxResults }
    \cup { RaisedOutcome }

RunCodeInit ==
    /\ AgentInit
    /\ ExtIdle
    /\ rc_pc = "in"
    /\ rc_in \in RunCodeOutcomes
    /\ rc_out = <<>>

\* tools.py 103-136
RunCodeCall ==
    /\ rc_pc = "in"
    /\ rc_out' = run_code(rc_in)
    /\ rc_pc' = "out"
    /\ UNCHANGED rc_in
    /\ UNCHANGED <<agent_vars, ext_vars>>

RunCodeNext == RunCodeCall

SpecRunCode == RunCodeInit /\ [][RunCodeNext]_vars

-----------------------------------------------------------------------------
(* tools.py: the registry of sandboxes.  user_sandboxes is a TTLCache: an  *)
(* entry leaves it by `del`, and also when its time to live has run out    *)
(* (Expire).  A call is entered in reg_calls when it has taken             *)
(* _sandbox_lock (a call that waits for the lock has done nothing yet).    *)
(* The membership test and the lookup that follows it at once (lines 33    *)
(* and 35, 41 and 43, 69 and 71) are one step; the remote operations       *)
(* (ModalSandbox(...), terminate(), sandbox.run_code) are steps of their   *)
(* own, during which time passes and other threads run.                    *)

\* current_user_id (line 22) has no default: the value of a context that never set it
Unset == "unset"

\* with _sandbox_lock (lines 32, 40, 67)
CanAcquireAlways(lock) == TRUE
CanAcquire(lock) == lock = 0

\* the key of a user's entry in user_sandboxes (lines 33-35, 41-46, 69-76)
RegistryKeyShared(user_id) == "u1"
RegistryKey(user_id) == user_id

\* lines 42-45, 70-73: try: ...terminate() except Exception: pass
AfterTerminateErrorRaises == "raise"
AfterTerminateError == "del"

\* lines 46, 74: del user_sandboxes[user_id]
DelEntryKeeps(reg, key) == reg
DelEntry(reg, key) == [reg EXCEPT ![key] = 0]

NoGen == [resets |-> 0, expiries |-> 0]

\* a call with its locals: old is the Controller found, new the one constructed,
\* ret the one returned (run_code: the local `sandbox`), trm the terminate() calls
\* made, raised the exception that ended it ("" if none), at the value of gen when
\* it obtained ret
Call(op, user_id) ==
    [op |-> op, user_id |-> user_id, pc |-> "start", old |-> 0, new |-> 0, ret |-> 0,
     trm |-> 0, term_raised |-> FALSE, raised |-> "", at |-> NoGen]

\* a ModalSandbox object: the key it was registered under, the call that
\* constructed it, the terminate() calls made on it, the calls whose code was
\* submitted to it
ModalSandbox(key, c, g) ==
    [key |-> key, by |-> c, terminate_calls |-> 0, gen |-> g, submits |-> <<>>]

RegCalls == 1..Len(reg_calls)

\* get_sandbox lines 32-33 and 35, also when called from run_code (line 110)
GetSandboxEnter(op, user_id) ==
    /\ Len(reg_calls) < MaxCalls
    /\ CanAcquire(sandbox_lock)
    /\ LET c == Len(reg_calls) + 1
           key == RegistryKey(user_id)
           e == user_sandboxes[key]
       IN  IF e # 0
           THEN /\ reg_calls' = Append(reg_calls,
                        [Call(op, user_id) EXCEPT
                            !.pc = IF op = "run_code" THEN "submit" ELSE "done",
                            !.ret = e, !.at = gen[key]])
                /\ UNCHANGED sandbox_lock
           ELSE /\ reg_calls' = Append(reg_calls,
                        [Call(op, user_id) EXCEPT !.pc = "construct"])
                /\ sandbox_lock' = c
    /\ UNCHANGED <<user_sandboxes, ctl, gen>>

\* get_sandbox(user_id) called with a user id (lines 28-35)
get_sandbox ==
    \E user_id \in Users : GetSandboxEnter("get_sandbox", user_id)

\* run_code lines 108-110 in a context whose current_user_id is ctx; with the
\* variable unset, line 109 raises LookupError, which line 112 catches
run_code_enter ==
    \E ctx \in Users \cup {Unset} :
        IF ctx = Unset
        THEN /\ Len(reg_calls) < MaxCalls
             /\ reg_calls' = Append(reg_calls,
                    [Call("run_code", ctx) EXCEPT !.pc = "done", !.raised = "LookupError"])
             /\ UNCHANGED <<user_sandboxes, sandbox_lock, ctl, gen>>
        ELSE GetSandboxEnter("run_code", ctx)

\* reset_sandbox lines 40-41, 43 (lookup) and _init_user_sandbox lines 67-69, 71
EnterExisting(op, user_id) ==
    /\ Len(reg_calls) < MaxCalls
    /\ CanAcquire(sandbox_lock)
    /\ LET c == Len(reg_calls) + 1
           e == user_sandboxes[RegistryKey(user_id)]
       IN  IF e # 0
           THEN /\ reg_calls' = Append(reg_calls,
                        [Call(op, user_id) EXCEPT !.pc = "terminate", !.old = e])
                /\ sandbox_lock' = c
           ELSE IF op = "reset_sandbox"
           THEN /\ reg_calls' = Append(reg_calls, [Call(op, user_id) EXCEPT !.pc = "done"])
                /\ UNCHANGED sandbox_lock
           ELSE /\ reg_calls' = Append(reg_calls,
                        [Call(op, user_id) EXCEPT !.pc = "construct"])
                /\ sandbox_lock' = c
    /\ UNCHANGED <<user_sandboxes, ctl, gen>>

\* reset_sandbox(user_id), lines 38-46
reset_sandbox == \E user_id \in Users : EnterExisting("reset_sandbox", user_id)

\* init_sandbox(user_id), lines 62-78: _init_user_sandbox run by the executor
init_sandbox == \E user_id \in Users : EnterExisting("init_sandbox", user_id)

\* lines 43, 71: ....terminate(), which may raise
terminate(c) ==
    /\ reg_calls[c].pc = "terminate"
    /\ ctl' = [ctl EXCEPT ![reg_calls[c].old].terminate_calls = @ + 1]
    /\ \E ok \in BOOLEAN :
        LET nxt == IF ok THEN "del" ELSE AfterTerminateError IN
        IF nxt = "del"
        THEN /\ reg_calls' = [reg_calls EXCEPT ![c].pc = "del", ![c].trm = @ + 1,
                                               ![c].term_raised = ~ok]
             /\ UNCHANGED sandbox_lock
        ELSE /\ reg_calls' = [reg_calls EXCEPT ![c].pc = "done", ![c].trm = @ + 1,
                                               ![c].term_raised = TRUE,
                                               ![c].raised = "terminate"]
             /\ sandbox_lock' = 0
    /\ UNCHANGED <<user_sandboxes, gen>>

\* lines 46, 74: del user_sandboxes[user_id]; KeyError when the entry has expired
\* while terminate() ran
del_entry(c) ==
    /\ reg_calls[c].pc = "del"
    /\ LET key == RegistryKey(reg_calls[c].user_id) IN
       IF user_sandboxes[key] = 0
       THEN /\ reg_calls' = [reg_calls EXCEPT ![c].pc = "done", ![c].raised = "KeyError"]
            /\ sandbox_lock' = 0
            /\ UNCHANGED <<user_sandboxes, gen>>
       ELSE /\ user_sandboxes' = DelEntry(user_sandboxes, key)
            /\ gen' = [gen EXCEPT ![key].resets = @ + 1]
            /\ IF reg_calls[c].op = "reset_sandbox"
               THEN /\ reg_calls' = [reg_calls EXCEPT ![c].pc = "done"]
                    /\ sandbox_lock' = 0
               ELSE /\ reg_calls' = [reg_calls EXCEPT ![c].pc = "construct"]
                    /\ UNCHANGED sandbox_lock
    /\ UNCHANGED ctl

\* lines 34, 76: user_sandboxes[user_id] = ModalSandbox(init_script=INIT_SCRIPT), and
\* line 35; the constructor may raise, and then nothing is stored
construct(c) ==
    /\ reg_calls[c].pc = "construct"
    /\ LET key == RegistryKey(reg_calls[c].user_id)
           op == reg_calls[c].op
           id == Len(ctl) + 1
           g == IF op = "init_sandbox"
                THEN [gen[key] EXCEPT !.resets = @ + 1] ELSE gen[key]
       IN  \E ok \in BOOLEAN :
            IF ok
            THEN /\ ctl' = Append(ctl, ModalSandbox(key, c, g))
                 /\ user_sandboxes' = [user_sandboxes EXCEPT ![key] = id]
                 /\ gen' = [gen EXCEPT ![key] = g]
                 /\ reg_calls' = [reg_calls EXCEPT
                        ![c].pc = IF op = "run_code" THEN "submit" ELSE "done",
                        ![c].new = id,
                        ![c].ret = IF op = "init_sandbox" THEN 0 ELSE id,
                        ![c].at = IF op = "init_sandbox" THEN NoGen ELSE g]
            ELSE /\ reg_calls' = [reg_calls EXCEPT ![c].pc = "done",
                                                   ![c].raised = "construct"]
                 /\ UNCHANGED <<ctl, user_sandboxes, gen>>
    /\ sandbox_lock' = 0

\* run_code line 111: sandbox.run_code(code) on the Controller get_sandbox returned
sandbox_run_code(c) ==
    /\ reg_calls[c].pc = "submit"
    /\ ctl' = [ctl EXCEPT ![reg_calls[c].ret].submits = Append(@, c)]
    /\ reg_calls' = [reg_calls EXCEPT ![c].pc = "done"]
    /\ UNCHANGED <<user_sandboxes, sandbox_lock, gen>>

\* line 15: TTLCache(maxsize=1000, ttl=1800): the entry's time has run out (or the
\* cache was full and dropped it); nothing is called on the Controller
Expire(key) ==
    /\ user_sandboxes[key] # 0
    /\ user_sandboxes' = [user_sandboxes EXCEPT ![key] = 0]
    /\ gen' = [gen EXCEPT ![key].expiries = @ + 1]
    /\ UNCHANGED <<sandbox_lock, reg_calls, ctl>>

RegNext ==
    \/ (get_sandbox /\ UNCHANGED <<agent_vars, rc_vars, srv_vars, drv_vars, ctl_vars, sbx_vars, io_vars>>)
    \/ (reset_sandbox /\ UNCHANGED <<agent_vars, rc_vars, srv_vars, drv_vars, ctl_vars, sbx_vars, io_vars>>)
    \/ (init_sandbox /\ UNCHANGED <<agent_vars, rc_vars, srv_vars, drv_vars, ctl_vars, sbx_vars, io_vars>>)
    \/ (run_code_enter /\ UNCHANGED <<agent_vars, rc_vars, srv_vars, drv_vars, ctl_vars, sbx_vars, io_vars>>)
    \/ (\E c \in RegCalls : terminate(c) /\ UNCHANGED <<agent_vars, rc_vars, srv_vars, drv_vars, ctl_vars, sbx_vars, io_vars>>)
    \/ (\E c \in RegCalls : del_entry(c) /\ UNCHANGED <<agent_vars, rc_vars, srv_vars, drv_vars, ctl_vars, sbx_vars, io_vars>>)
    \/ (\E c \in RegCalls : construct(c) /\ UNCHANGED <<agent_vars, rc_vars, srv_vars, drv_vars, ctl_vars, sbx_vars, io_vars>>)
    \/ (\E c \in RegCalls : sandbox_run_code(c) /\ UNCHANGED <<agent_vars, rc_vars, srv_vars, drv_vars, ctl_vars, sbx_vars, io_vars>>)
    \/ (\E key \in Users : Expire(key) /\ UNCHANGED <<agent_vars, rc_vars, srv_vars, drv_vars, ctl_vars, sbx_vars, io_vars>>)

SpecRegistry == Init /\ [][RegNext]_vars

-----------------------------------------------------------------------------
(* main.py as a server for several browsers: every request comes from a    *)
(* user, and GET /agent-stream drives run_agent from event_stream.         *)

Request(route, user) == [route |-> route, user |-> user]

\* main.py line 12: the one list that serves every user
MessagesIn(h, M, user) == [i \in 1..Len(h[M]) |-> h[M][i].m]

MessagesOf(user) == MessagesIn(heap, MESSAGES, user)

\* the background tasks a route schedules (lines 255-259, 310-317, 320-345: none)
ScheduledBy(route) == <<>>

\* line 356: event["type"]; the usage event is a dict with that key, the message
\* events (a dict with role/content, the gateway's message object) have none
EventType(e) ==
    IF e.type = "usage" THEN [ok |-> TRUE, value |-> "usage"]
    ELSE [ok |-> FALSE, value |-> "KeyError"]

\* lines 356-385: the SSE events event_stream yields for an event of that type
SseFor(type) ==
    IF type \in {"tool_call", "tool_result"} THEN <<"AgentEvent">>
    ELSE IF type = "response" THEN <<"AgentEvent", "close">>
    ELSE <<>>

\* event_stream after a step of its generator: the for loop ends when the generator
\* returns, and an exception of the generator leaves event_stream
StreamAfter(p) ==
    IF p \in {"model_error", "tool_error"} THEN "raised"
    ELSE IF p = "done" THEN "ended"
    ELSE "open"

\* GET / (lines 255-259)
index_by(user) ==
    /\ index
    /\ request' = Request("/", user)
    /\ tasks' = ScheduledBy("/")
    /\ UNCHANGED <<turn_user, sse, stream, consumed>>

\* POST /clear (lines 310-317)
clear_by(user) ==
    /\ clear
    /\ request' = Request("/clear", user)
    /\ tasks' = ScheduledBy("/clear")
    /\ UNCHANGED <<turn_user, sse, stream, consumed>>

\* POST /chat (lines 320-345)
chat_by(user) ==
    /\ chat
    /\ request' = Request("/chat", user)
    /\ tasks' = ScheduledBy("/chat")
    /\ UNCHANGED <<turn_user, sse, stream, consumed>>

\* GET /agent-stream (lines 348-355, 387)
get_by(user) ==
    /\ get
    /\ request' = Request("/agent-stream", user)
    /\ tasks' = ScheduledBy("/agent-stream")
    /\ turn_user' = Append(turn_user, user)
    /\ sse' = Append(sse, <<>>)
    /\ stream' = Append(stream, "open")
    /\ consumed' = Append(consumed, 0)

\* line 355: the for loop resumes the generator, which runs to its next yield, its
\* return or its exception
event_stream_next(t) ==
    /\ stream[t] = "open"
    /\ consumed[t] = Len(emitted[t])
    /\ \/ ModelCall(t) \/ ModelCallFails(t) \/ AppendAssistant(t) \/ YieldAssistant(t)
       \/ Return(t) \/ ToolStep(t) \/ ToolRaises(t) \/ YieldTool(t)
    /\ stream' = [stream EXCEPT ![t] = StreamAfter(pc'[t])]
    /\ request' = Request("/agent-stream", turn_user[t])
    /\ UNCHANGED <<turn_user, sse, consumed, tasks>>

\* lines 356-385: the body of the for loop on the event just yielded; when
\* event["type"] raises, event_stream ends and its generator is dropped
event_stream_body(t) ==
    /\ stream[t] = "open"
    /\ consumed[t] < Len(emitted[t])
    /\ LET type == EventType(emitted[t][consumed[t] + 1]) IN
       IF type.ok
       THEN /\ sse' = [sse EXCEPT ![t] = @ \o SseFor(type.value)]
            /\ consumed' = [consumed EXCEPT ![t] = @ + 1]
            /\ UNCHANGED <<stream, agent_vars>>
       ELSE /\ Disconnect(t)
            /\ stream' = [stream EXCEPT ![t] = "raised"]
            /\ UNCHANGED <<sse, consumed>>
    /\ request' = Request("/agent-stream", turn_user[t])
    /\ UNCHANGED <<turn_user, tasks>>

\* the browser drops the SSE connection
client_disconnect(t) ==
    /\ stream[t] = "open"
    /\ Disconnect(t)
    /\ stream' = [stream EXCEPT ![t] = "cancelled"]
    /\ request' = Request("/agent-stream", turn_user[t])
    /\ UNCHANGED <<turn_user, sse, consumed, tasks>>

ServerNext ==
    \/ (\E user \in Users : index_by(user) /\ UNCHANGED <<rc_vars, reg_vars, drv_vars, ctl_vars, sbx_vars, io_vars>>)
    \/ (\E user \in Users : clear_by(user) /\ UNCHANGED <<rc_vars, reg_vars, drv_vars, ctl_vars, sbx_vars, io_vars>>)
    \/ (\E user \in Users : chat_by(user) /\ UNCHANGED <<rc_vars, reg_vars, drv_vars, ctl_vars, sbx_vars, io_vars>>)
    \/ (\E user \in Users : get_by(user) /\ UNCHANGED <<rc_vars, reg_vars, drv_vars, ctl_vars, sbx_vars, io_vars>>)
    \/ (\E t \in Turns : event_stream_next(t) /\ UNCHANGED <<rc_vars, reg_vars, drv_vars, ctl_vars, sbx_vars, io_vars>>)
    \/ (\E t \in Turns : event_stream_body(t) /\ UNCHANGED <<rc_vars, reg_vars, drv_vars, ctl_vars, sbx_vars, io_vars>>)
    \/ (\E t \in Turns : client_disconnect(t) /\ UNCHANGED <<rc_vars, reg_vars, drv_vars, ctl_vars, sbx_vars, io_vars>>)

SpecServer == Init /\ [][ServerNext]_vars

-----------------------------------------------------------------------------
(* driver_program.py: the loop that executes the snippets appended to the  *)
(* request file.  A snippet is a sequence of top-level statements; exec    *)
(* runs them in order in the dictionary `globals` until one raises.        *)

Names == {"x", "y"}

\* statements of a snippet
Bind(name, value) == [stmt |-> "bind", name |-> name, value |-> value]
Del(name) == [stmt |-> "del", name |-> name, value |-> 0]
PrintName(name) == [stmt |-> "print", name |-> name, value |-> 0]
Raise(kind) == [stmt |-> "raise", name |-> kind, value |-> 0]

\* the exception classes that derive from Exception (line 66 catches these); the
\* others derive from BaseException only
IsException(kind) == kind \in {"ValueError", "NameError"}

\* the snippets submitted
Snippets ==
    { <<Bind("x", 1)>>,
      <<Bind("x", 2), Bind("y", 1)>>,
      <<Bind("y", 2), Raise("ValueError"), Bind("x", 2)>>,
      <<PrintName("x")>>,
      <<Del("x")>>,
      <<Raise("SystemExit")>> }

\* the lines of the request file: a record with code and command_id as
\* ModalSandbox.run_code writes it (coding_sandbox.py 152-153), records that lack
\* one of the two, and a blank line
RequestLine(code, command_id) ==
    [blank |-> FALSE, has_code |-> TRUE, code |-> code,
     has_id |-> TRUE, command_id |-> command_id]
NoCodeLine(command_id) ==
    [blank |-> FALSE, has_code |-> FALSE, code |-> <<>>,
     has_id |-> TRUE, command_id |-> command_id]
NoIdLine(code) ==
    [blank |-> FALSE, has_code |-> TRUE, code |-> code, has_id |-> FALSE, command_id |-> 0]
BlankLine ==
    [blank |-> TRUE, has_code |-> FALSE, code |-> <<>>, has_id |-> FALSE, command_id |-> 0]

NoGlobals == [n \in {} |-> 0]

\* line 65, exec(code, globals), from statement i on: the dictionary afterwards,
\* what was printed, the exception that ended it ("" if none) and the statements
\* that ran to completion
RECURSIVE Exec(_, _, _, _, _)
Exec(code, i, env, out, ran) ==
    IF i > Len(code) THEN [env |-> env, out |-> out, raised |-> "", ran |-> ran]
    ELSE LET s == code[i]
             stop(kind) == [env |-> env, out |-> out, raised |-> kind, ran |-> ran]
         IN  IF s.stmt = "bind"
             THEN Exec(code, i + 1,
                       [n \in DOMAIN env \cup {s.name} |->
                            IF n = s.name THEN s.value ELSE env[n]],
                       out, Append(ran, s))
             ELSE IF s.stmt = "del"
             THEN IF s.name \in DOMAIN env
                  THEN Exec(code, i + 1, [n \in DOMAIN env \ {s.name} |-> env[n]],
                            out, Append(ran, s))
                  ELSE stop("NameError")
             ELSE IF s.stmt = "print"
             THEN IF s.name \in DOMAIN env
                  THEN Exec(code, i + 1, env, Append(out, env[s.name]), Append(ran, s))
                  ELSE stop("NameError")
             ELSE stop(s.name)

\* the dictionary that the next exec gets after a snippet that raised
GlobalsAfterErrorCleared(env) == NoGlobals
GlobalsAfterError(env) == env

\* lines 153-163: the response object (lines 69-151 find no figure in a snippet
\* made of these statements)
DriverResponse(out, raised) ==
    [stdout |-> out,
     stderr |-> IF raised = "" THEN EmptyStr ELSE <<raised, ": ">>,
     images |-> <<>>,
     plotly_htmls |-> <<>>]

\* ModalSandbox.run_code appends a request (coding_sandbox.py 146-153); other
\* writers of the file may leave blank lines or records without code or command_id
submit ==
    /\ Len(REQ) < MaxRequests
    /\ \E line \in { RequestLine(code, Len(REQ) + 1) : code \in Snippets }
                    \cup { NoCodeLine(Len(REQ) + 1), NoIdLine(<<Bind("x", 1)>>),
                           BlankLine } :
        REQ' = Append(REQ, line)
    /\ UNCHANGED <<drv_pos, drv_globals, RES, drv_state, drv_trace>>

\* one iteration of the for loop over tail_f(STDIN_FILE), lines 47-163
driver_loop ==
    /\ drv_state = "running"
    /\ drv_pos < Len(REQ)
    /\ drv_pos' = drv_pos + 1
    /\ LET command == REQ[drv_pos + 1] IN
       IF command.blank \/ ~command.has_code \/ ~command.has_id
       THEN UNCHANGED <<drv_globals, RES, drv_state, drv_trace>>
       ELSE LET r == Exec(command.code, 1, drv_globals, <<>>, <<>>) IN
            /\ drv_globals' = IF r.raised = "" THEN r.env ELSE GlobalsAfterError(r.env)
            /\ drv_trace' = drv_trace \o r.ran
            /\ IF r.raised = "" \/ IsException(r.raised)
               THEN /\ RES' = [id \in DOMAIN RES \cup {command.command_id} |->
                                IF id = command.command_id
                                THEN DriverResponse(r.out, r.raised) ELSE RES[id]]
                    /\ UNCHANGED drv_state
               ELSE /\ drv_state' = "stopped"
                    /\ UNCHANGED RES
    /\ UNCHANGED REQ

DriverNext ==
    \/ (submit /\ UNCHANGED <<agent_vars, rc_vars, reg_vars, srv_vars, ctl_vars, sbx_vars, io_vars>>)
    \/ (driver_loop /\ UNCHANGED <<agent_vars, rc_vars, reg_vars, srv_vars, ctl_vars, sbx_vars, io_vars>>)

SpecDriver == Init /\ [][DriverNext]_vars

-----------------------------------------------------------------------------
(* A turn of run_agent whose tool calls go through tools.run_code to       *)
(* ModalSandbox.run_code and the Driver.  The generator runs on the event  *)
(* loop thread and the call is synchronous, so one call is in progress at  *)
(* a time (poll); the Driver is another process and runs at any moment.    *)
(* Every open of _open_sandbox_file is a step: it succeeds, or it raises   *)
(* FilesystemExecutionError, or (reading) FileNotFoundError while the      *)
(* Driver has not written the file.                                        *)

\* coding_sandbox.py line 21, scaled
MAXIMUM_OPEN_FILE_ATTEMPTS == MaxPolls

\* coding_sandbox.py line 149: max_attempts of the append to the request file
STDIN_ATTEMPTS == 3

\* _open_sandbox_file lines 138-141: the failed open was the last one allowed
ExhaustedLate(attempt, max_attempts) == attempt >= max_attempts
Exhausted(attempt, max_attempts) == attempt + 1 >= max_attempts

\* tools.py line 112, `except Exception`: the exceptions the try block can meet
\* all derive from Exception
CaughtNever(kind) == FALSE
Caught(kind) ==
    kind \in {"LookupError", "FileNotFoundError", "FilesystemExecutionError", "Exception"}

\* str(e) of an exception of class kind
ErrText(kind) == <<kind>>

\* the try block of tools.run_code ended by an exception of class kind
Raised(kind) == [raised |-> TRUE, kind |-> kind, err |-> ErrText(kind),
                 result |-> [stdout |-> EmptyStr]]

\* what print(v) wrote to the captured stdout
Digits == [v \in 0..2 |-> <<"0", "1", "2">>[v + 1]]
RECURSIVE Printed(_)
Printed(out) == IF out = <<>> THEN EmptyStr ELSE <<Digits[Head(out)], "\n">> \o Printed(Tail(out))

\* coding_sandbox.py lines 168-169: json.load of the response file
Returned(file) ==
    [raised |-> FALSE, kind |-> "", err |-> EmptyStr,
     result |-> [stdout |-> Printed(file.stdout), stderr |-> file.stderr,
                 images |-> file.images, plotly_htmls |-> file.plotly_htmls]]

\* tools.py 112-136 and agent.py 71-76 once the try block has ended: the tool
\* message is built and appended; an exception that line 112 does not catch
\* leaves run_agent
ToolEnds(t, outcome) ==
    IF outcome.raised /\ ~Caught(outcome.kind)
    THEN /\ pc' = [pc EXCEPT ![t] = "tool_error"]
         /\ loop' = 0
         /\ UNCHANGED <<heap, MESSAGES, messages, total_tokens, response, tool_idx,
                        tool_msg, emitted, responses, session_usage, overlapped, nevents>>
    ELSE LET tool_call == response[t].message.tool_calls[tool_idx[t]]
             msg == ToolMsg(tool_call, run_code(outcome)) IN
         /\ tool_msg' = [tool_msg EXCEPT ![t] = msg]
         /\ heap' = ListAppend(heap, messages[t], msg, t)
         /\ pc' = [pc EXCEPT ![t] = "temit"]
         /\ loop' = t
         /\ UNCHANGED <<MESSAGES, messages, total_tokens, response, tool_idx, emitted,
                        responses, session_usage, overlapped, nevents>>

\* agent.py 66-69 and tools.py 108-110: run_code is invoked; current_user_id.get()
\* raises LookupError when the caller set no user, get_sandbox may raise while it
\* constructs a ModalSandbox, otherwise ModalSandbox.run_code starts (line 146)
tool_enter(t) ==
    /\ pc[t] = "tool"
    /\ Runs(t)
    /\ poll.phase = "idle"
    /\ ~InvocationRaises(response[t].message.tool_calls[tool_idx[t]])
    /\ \/ /\ \E kind \in {"LookupError", "Exception"} : ToolEnds(t, Raised(kind))
          /\ UNCHANGED poll
       \/ /\ Len(REQ) < MaxRequests
          /\ \E code \in Snippets :
                poll' = [phase |-> "append", turn |-> t, command_id |-> Len(REQ) + 1,
                         attempt |-> 0, stdin_opens |-> 0, code |-> code]
          /\ loop' = t
          /\ UNCHANGED <<heap, MESSAGES, pc, messages, total_tokens, response, tool_idx,
                         tool_msg, emitted, responses, session_usage, overlapped, nevents>>
    /\ UNCHANGED drv_vars

\* coding_sandbox.py 149-151: one open of the request file for appending
open_stdin ==
    /\ poll.phase = "append"
    /\ \/ /\ REQ' = Append(REQ, RequestLine(poll.code, poll.command_id))
          /\ poll' = [poll EXCEPT !.phase = "poll", !.attempt = 0, !.stdin_opens = @ + 1]
          /\ UNCHANGED <<agent_vars, drv_pos, drv_globals, RES, drv_state, drv_trace>>
       \/ /\ IF Exhausted(poll.attempt, STDIN_ATTEMPTS)
             THEN /\ ToolEnds(poll.turn, Raised("FilesystemExecutionError"))
                  /\ poll' = NoPoll
             ELSE /\ poll' = [poll EXCEPT !.attempt = @ + 1, !.stdin_opens = @ + 1]
                  /\ UNCHANGED agent_vars
          /\ UNCHANGED drv_vars

\* coding_sandbox.py 159-169: one open of the response file for reading
open_out ==
    /\ poll.phase = "poll"
    /\ \E fault \in BOOLEAN :
        IF ~fault /\ poll.command_id \in DOMAIN RES
        THEN /\ ToolEnds(poll.turn, Returned(RES[poll.command_id]))
             /\ poll' = NoPoll
        ELSE LET kind == IF fault THEN "FilesystemExecutionError" ELSE "FileNotFoundError" IN
             IF Exhausted(poll.attempt, MAXIMUM_OPEN_FILE_ATTEMPTS)
             THEN /\ ToolEnds(poll.turn, Raised(kind))
                  /\ poll' = NoPoll
             ELSE /\ poll' = [poll EXCEPT !.attempt = @ + 1]
                  /\ UNCHANGED agent_vars
    /\ UNCHANGED drv_vars

\* one turn is run
OneTurn == pc = <<>>

\* the model asks for tools in its first response of a turn only
OneToolRound(t) == responses[t] # <<>> => IsFinal(response'[t].message)

TurnNext ==
    \/ (get /\ OneTurn /\ UNCHANGED <<rc_vars, ext_vars>>)
    \/ (\E t \in Turns : ModelCall(t) /\ OneToolRound(t) /\ UNCHANGED <<rc_vars, ext_vars>>)
    \/ (\E t \in Turns : ModelCallFails(t) /\ UNCHANGED <<rc_vars, ext_vars>>)
    \/ (\E t \in Turns : AppendAssistant(t) /\ UNCHANGED <<rc_vars, ext_vars>>)
    \/ (\E t \in Turns : YieldAssistant(t) /\ UNCHANGED <<rc_vars, ext_vars>>)
    \/ (\E t \in Turns : Return(t) /\ UNCHANGED <<rc_vars, ext_vars>>)
    \/ (\E t \in Turns : ToolRaises(t) /\ UNCHANGED <<rc_vars, ext_vars>>)
    \/ (\E t \in Turns : YieldTool(t) /\ UNCHANGED <<rc_vars, ext_vars>>)
    \/ (\E t \in Turns : Disconnect(t) /\ UNCHANGED <<rc_vars, ext_vars>>)
    \/ (\E t \in Turns : tool_enter(t) /\ UNCHANGED <<rc_vars, reg_vars, srv_vars, sbx_vars, io_vars>>)
    \/ (open_stdin /\ UNCHANGED <<rc_vars, reg_vars, srv_vars, sbx_vars, io_vars>>)
    \/ (open_out /\ UNCHANGED <<rc_vars, reg_vars, srv_vars, sbx_vars, io_vars>>)
    \/ (driver_loop /\ UNCHANGED <<agent_vars, rc_vars, reg_vars, srv_vars, ctl_vars, sbx_vars, io_vars>>)

SpecTurn == Init /\ [][TurnNext]_vars

-----------------------------------------------------------------------------
(* coding_sandbox.py: ModalSandbox.__init__.  The host keeps the processes *)
(* it has started; a process is identified by its position in procs (its   *)
(* object id), runs the Driver while it is alive, and stops at any moment  *)
(* (terminate, idle timeout, lifetime).  A constructor call is entered in  *)
(* cons; its remote operations are steps of their own.                     *)

None == 0
\* an id the host has never handed out
UnknownId == 99
\* the init_script argument: None, or a string
NoScript == [is_none |-> TRUE, text |-> ""]
Script(text) == [is_none |-> FALSE, text |-> text]
INIT_SCRIPT == Script("z=3.14")

\* a ModalSandbox(...) call at its first line, lines 56-62
Construction(sandbox_id, init_script) ==
    [sandbox_id |-> sandbox_id, init_script |-> init_script,
     pc |-> IF sandbox_id # None THEN "from_id" ELSE "create",
     sandbox |-> None,    \* self.sandbox
     created |-> 0,       \* processes this call has made the host start
     saw_alive |-> FALSE, \* the process named by sandbox_id was alive when polled
     submitted |-> FALSE] \* run_code(init_script) has appended its request

\* a process as Sandbox.create starts it (lines 73-86): the Driver is running and
\* has executed nothing
Process(by) == [alive |-> TRUE, by |-> by, REQ |-> <<>>, ran |-> <<>>]

Constructions == 1..Len(cons)
ProcessIds == 1..Len(procs)

\* line 99, sb.poll() is None
IsRunningAlways(p) == TRUE
IsRunning(p) == p.alive

\* line 88, the truth value of init_script
HasInitScript(init_script) == ~init_script.is_none /\ init_script.text # ""

\* where __init__ goes once self.sandbox names an existing process, lines 62-65
AfterAttach(init_script) == "returned"

\* a caller constructs a ModalSandbox
construct_begin ==
    /\ Len(cons) < MaxCalls
    /\ \E sandbox_id \in {None, UnknownId} \cup ProcessIds,
          init_script \in {NoScript, Script(""), INIT_SCRIPT} :
        cons' = Append(cons, Construction(sandbox_id, init_script))
    /\ UNCHANGED procs

\* lines 94-97: modal.Sandbox.from_id raises for an id the host does not know
from_id(k) ==
    /\ cons[k].pc = "from_id"
    /\ cons' = [cons EXCEPT ![k].pc =
                    IF cons[k].sandbox_id \in ProcessIds THEN "poll" ELSE "create"]
    /\ UNCHANGED procs

\* lines 98-103 and 62-65
get_running_sandbox_from_id(k) ==
    /\ cons[k].pc = "poll"
    /\ LET sb == cons[k].sandbox_id IN
        cons' = [cons EXCEPT ![k] =
                    IF IsRunning(procs[sb])
                    THEN [@ EXCEPT !.sandbox = sb, !.saw_alive = procs[sb].alive,
                                   !.pc = AfterAttach(cons[k].init_script)]
                    ELSE [@ EXCEPT !.saw_alive = procs[sb].alive, !.pc = "create"]]
    /\ UNCHANGED procs

\* lines 67-87: modal.Sandbox.create starts a process, or raises
create(k) ==
    /\ cons[k].pc = "create"
    /\ \/ /\ procs' = Append(procs, Process(k))
          /\ cons' = [cons EXCEPT ![k].sandbox = Len(procs) + 1,
                                  ![k].created = @ + 1,
                                  ![k].pc = IF HasInitScript(cons[k].init_script)
                                            THEN "init" ELSE "returned"]
       \/ /\ cons' = [cons EXCEPT ![k].pc = "raised"]
          /\ UNCHANGED procs

\* lines 88-89, self.run_code(init_script): the request is appended
init_submit(k) ==
    /\ cons[k].pc = "init"
    /\ ~cons[k].submitted
    /\ procs' = [procs EXCEPT ![cons[k].sandbox].REQ = Append(@, [code |-> cons[k].init_script, by |-> k])]
    /\ cons' = [cons EXCEPT ![k].submitted = TRUE]

\* the Driver of process p executes the next request of its request file and
\* writes the response
process_run(p) ==
    /\ procs[p].alive
    /\ Len(procs[p].ran) < Len(procs[p].REQ)
    /\ procs' = [procs EXCEPT ![p].ran = Append(@, procs[p].REQ[Len(procs[p].ran) + 1])]
    /\ UNCHANGED cons

\* lines 88-89, self.run_code(init_script): the response is read, or the reads
\* are used up while it is missing and run_code raises
init_response(k) ==
    /\ cons[k].pc = "init"
    /\ cons[k].submitted
    /\ LET p == procs[cons[k].sandbox] IN
        IF \E i \in 1..Len(p.ran) : p.ran[i].by = k
        THEN cons' = [cons EXCEPT ![k].pc = "returned"]
        ELSE cons' = [cons EXCEPT ![k].pc = "raised"]
    /\ UNCHANGED procs

\* a process stops: it was terminated, or one of its timeouts ran out
process_stop(p) ==
    /\ procs[p].alive
    /\ procs' = [procs EXCEPT ![p].alive = FALSE]
    /\ UNCHANGED cons

\* the caller constructs one ModalSandbox after the other
OneAtATime == \A k \in Constructions : cons[k].pc \in {"returned", "raised"}

ConstructNext ==
    \/ (construct_begin /\ OneAtATime /\ UNCHANGED <<agent_vars, rc_vars, reg_vars, srv_vars, drv_vars, ctl_vars, io_vars>>)
    \/ (\E k \in Constructions : from_id(k) /\ UNCHANGED <<agent_vars, rc_vars, reg_vars, srv_vars, drv_vars, ctl_vars, io_vars>>)
    \/ (\E k \in Constructions : get_running_sandbox_from_id(k) /\ UNCHANGED <<agent_vars, rc_vars, reg_vars, srv_vars, drv_vars, ctl_vars, io_vars>>)
    \/ (\E k \in Constructions : create(k) /\ UNCHANGED <<agent_vars, rc_vars, reg_vars, srv_vars, drv_vars, ctl_vars, io_vars>>)
    \/ (\E k \in Constructions : init_submit(k) /\ UNCHANGED <<agent_vars, rc_vars, reg_vars, srv_vars, drv_vars, ctl_vars, io_vars>>)
    \/ (\E k \in Constructions : init_response(k) /\ UNCHANGED <<agent_vars, rc_vars, reg_vars, srv_vars, drv_vars, ctl_vars, io_vars>>)
    \/ (\E p \in ProcessIds : process_run(p) /\ UNCHANGED <<agent_vars, rc_vars, reg_vars, srv_vars, drv_vars, ctl_vars, io_vars>>)
    \/ (\E p \in ProcessIds : process_stop(p) /\ UNCHANGED <<agent_vars, rc_vars, reg_vars, srv_vars, drv_vars, ctl_vars, io_vars>>)

SpecConstruct == Init /\ [][ConstructNext]_vars

-----------------------------------------------------------------------------
(* coding_sandbox.py: _open_sandbox_file, a generator wrapped by           *)
(* contextlib.contextmanager.  osf holds one use of it in a with           *)
(* statement: the arguments, the local `attempt`, and counts of what it    *)
(* has done (opens of the remote file, sleeps, yields to the with body).   *)
(* An exception raised by the with body is thrown into the generator at    *)
(* its yield, inside the try of lines 134-141.                             *)

\* what self.sandbox.open or the with body may raise
OpenErrors == {"FilesystemExecutionError", "FileNotFoundError", "ValueError"}

\* lines 130-131
RetryOnAll(extra_exceptions) == OpenErrors
retry_on_exceptions(extra_exceptions) == {"FilesystemExecutionError"} \cup extra_exceptions

\* lines 137-143 once `e` of class kind was caught at line 137
Retry(o, kind) ==
    IF Exhausted(o.attempt, o.max_attempts)
    THEN [o EXCEPT !.attempt = @ + 1, !.state = "raised", !.err = kind]
    ELSE [o EXCEPT !.attempt = @ + 1, !.sleeps = @ + 1, !.state = "open"]

\* self.sandbox.open was called and ended with outcome
Opened(o, outcome) == [o EXCEPT !.opens = @ + 1, !.seen = Append(@, outcome)]

\* a with statement enters _open_sandbox_file (lines 112-133)
osf_enter ==
    /\ osf.state \in {"idle", "returned", "raised"}
    /\ \E max_attempts \in 1..MaxPolls, extra_exceptions \in {{}, {"FileNotFoundError"}} :
        osf' = [NoOpen EXCEPT !.state = "open", !.max_attempts = max_attempts,
                              !.extra_exceptions = extra_exceptions]

\* line 135, self.sandbox.open(file_path, mode): it returns the file, which the
\* generator yields (a second yield makes contextmanager raise RuntimeError), or
\* it raises
osf_open ==
    /\ osf.state = "open"
    /\ \/ IF osf.yields = 0
          THEN osf' = [Opened(osf, "ok") EXCEPT !.yields = @ + 1, !.state = "body"]
          ELSE osf' = [Opened(osf, "ok") EXCEPT !.yields = @ + 1, !.state = "raised",
                                                !.err = "RuntimeError"]
       \/ \E kind \in OpenErrors :
            IF kind \in retry_on_exceptions(osf.extra_exceptions)
            THEN osf' = Retry(Opened(osf, kind), kind)
            ELSE osf' = [Opened(osf, kind) EXCEPT !.state = "raised", !.err = kind]

\* lines 136-137: the with body ends and the generator returns, or the body
\* raises and the exception is thrown in at the yield
osf_body ==
    /\ osf.state = "body"
    /\ \/ osf' = [osf EXCEPT !.state = "returned"]
       \/ \E kind \in OpenErrors :
            IF kind \in retry_on_exceptions(osf.extra_exceptions)
            THEN osf' = Retry([osf EXCEPT !.thrown = kind], kind)
            ELSE osf' = [osf EXCEPT !.thrown = kind, !.state = "raised", !.err = kind]

OpenNext ==
    \/ (osf_enter /\ UNCHANGED <<agent_vars, rc_vars, reg_vars, srv_vars, drv_vars, ctl_vars, sbx_vars, subs, drv_cur, more_vars>>)
    \/ (osf_open /\ UNCHANGED <<agent_vars, rc_vars, reg_vars, srv_vars, drv_vars, ctl_vars, sbx_vars, subs, drv_cur, more_vars>>)
    \/ (osf_body /\ UNCHANGED <<agent_vars, rc_vars, reg_vars, srv_vars, drv_vars, ctl_vars, sbx_vars, subs, drv_cur, more_vars>>)

SpecOpen == Init /\ [][OpenNext]_vars

-----------------------------------------------------------------------------
(* Several calls of ModalSandbox.run_code on one sandbox (threads of the   *)
(* server, overlapping turns) and its Driver, with the response file as    *)
(* the two processes see it: open(path, "w") creates the file empty, the   *)
(* JSON text reaches it when the file is flushed and closed.               *)

\* the snippets submitted
SubmitSnippets == { <<Bind("x", 1)>>, <<PrintName("x")>>, <<Raise("SystemExit")>> }

\* a response file that exists and holds no complete JSON text yet
Unwritten == [written |-> FALSE]

IsWritten(file) == "stdout" \in DOMAIN file

\* coding_sandbox.py line 157: the response file a call reads
OutFileShared(command_id) == 1
out_file(command_id) == command_id

Submits == 1..Len(subs)

\* line 146: command_id = uuid4().hex, an identifier no other call has
run_code_begin ==
    /\ Len(subs) < MaxSubmits
    /\ \E code \in SubmitSnippets :
        subs' = Append(subs, [code |-> code, command_id |-> Len(subs) + 1, pc |-> "append",
                              attempt |-> 0, result |-> Unwritten, err |-> ""])
    /\ UNCHANGED <<drv_vars, drv_cur>>

\* lines 149-151: one open of the request file; the record is appended
append_request(s) ==
    /\ subs[s].pc = "append"
    /\ \/ /\ REQ' = Append(REQ, RequestLine(subs[s].code, subs[s].command_id))
          /\ subs' = [subs EXCEPT ![s].pc = "poll", ![s].attempt = 0]
          /\ UNCHANGED <<drv_pos, drv_globals, RES, drv_state, drv_trace>>
       \/ /\ subs' = [subs EXCEPT ![s] =
                        IF Exhausted(subs[s].attempt, STDIN_ATTEMPTS)
                        THEN [@ EXCEPT !.pc = "raised", !.err = "FilesystemExecutionError"]
                        ELSE [@ EXCEPT !.attempt = @ + 1]]
          /\ UNCHANGED drv_vars
    /\ UNCHANGED drv_cur

\* lines 162-169: one open of the response file; once it opens, json.load decodes
\* what the file holds
read_response(s) ==
    /\ subs[s].pc = "poll"
    /\ LET f == out_file(subs[s].command_id) IN
       \E fault \in BOOLEAN :
        subs' = [subs EXCEPT ![s] =
            IF ~fault /\ f \in DOMAIN RES
            THEN IF IsWritten(RES[f])
                 THEN [@ EXCEPT !.pc = "returned", !.result = Returned(RES[f]).result]
                 ELSE [@ EXCEPT !.pc = "raised", !.err = "JSONDecodeError"]
            ELSE IF Exhausted(subs[s].attempt, MAXIMUM_OPEN_FILE_ATTEMPTS)
                 THEN [@ EXCEPT !.pc = "raised",
                                !.err = IF fault THEN "FilesystemExecutionError"
                                        ELSE "FileNotFoundError"]
                 ELSE [@ EXCEPT !.attempt = @ + 1]]
    /\ UNCHANGED <<drv_vars, drv_cur>>

\* driver_program.py lines 30-40, tail_f: the line handed to the loop after pos
\* lines is the next one of the file
TailSkips(pos) == IF pos + 2 <= Len(REQ) THEN pos + 2 ELSE pos + 1
tail_f(pos) == pos + 1

\* driver_program.py lines 47-153: the next line of the request file is read, its
\* snippet executed and the response file opened for writing
driver_exec ==
    /\ drv_state = "running"
    /\ drv_cur = NoFile
    /\ drv_pos < Len(REQ)
    /\ drv_pos' = drv_pos + 1
    /\ LET command == REQ[tail_f(drv_pos)] IN
       IF command.blank \/ ~command.has_code \/ ~command.has_id
       THEN UNCHANGED <<drv_globals, RES, drv_state, drv_trace, drv_cur>>
       ELSE LET r == Exec(command.code, 1, drv_globals, <<>>, <<>>) IN
            /\ drv_globals' = IF r.raised = "" THEN r.env ELSE GlobalsAfterError(r.env)
            /\ drv_trace' = drv_trace \o r.ran
            /\ IF r.raised = "" \/ IsException(r.raised)
               THEN /\ RES' = [id \in DOMAIN RES \cup {command.command_id} |->
                                IF id = command.command_id THEN Unwritten ELSE RES[id]]
                    /\ drv_cur' = [command_id |-> command.command_id,
                                   text |-> DriverResponse(r.out, r.raised)]
                    /\ UNCHANGED drv_state
               ELSE /\ drv_state' = "stopped"
                    /\ UNCHANGED <<RES, drv_cur>>
    /\ UNCHANGED <<REQ, subs>>

\* lines 154-163: the JSON text is written and the file closed
driver_write ==
    /\ drv_cur # NoFile
    /\ RES' = [RES EXCEPT ![drv_cur.command_id] = drv_cur.text]
    /\ drv_cur' = NoFile
    /\ UNCHANGED <<REQ, drv_pos, drv_globals, drv_state, drv_trace, subs>>

SubmitNext ==
    \/ (run_code_begin /\ UNCHANGED <<agent_vars, rc_vars, reg_vars, srv_vars, ctl_vars, sbx_vars, osf, more_vars>>)
    \/ (\E s \in Submits : append_request(s) /\ UNCHANGED <<agent_vars, rc_vars, reg_vars, srv_vars, ctl_vars, sbx_vars, osf, more_vars>>)
    \/ (\E s \in Submits : read_response(s) /\ UNCHANGED <<agent_vars, rc_vars, reg_vars, srv_vars, ctl_vars, sbx_vars, osf, more_vars>>)
    \/ (driver_exec /\ UNCHANGED <<agent_vars, rc_vars, reg_vars, srv_vars, ctl_vars, sbx_vars, osf, more_vars>>)
    \/ (driver_write /\ UNCHANGED <<agent_vars, rc_vars, reg_vars, srv_vars, ctl_vars, sbx_vars, osf, more_vars>>)

SpecSubmit == Init /\ [][SubmitNext]_vars

-----------------------------------------------------------------------------
(* The request file, write by write.  ModalSandbox.run_code appends a      *)
(* record with two calls of f.write, the JSON text and then the newline    *)
(* (coding_sandbox.py 149-153); the Driver follows the file with readline  *)
(* (driver_program.py 30-40), which returns what the file holds up to the  *)
(* next newline or, when there is none, up to the end of the file.  One    *)
(* Controller submits one snippet after the other.                         *)

\* what one call of f.write puts into the file
RecordText(code, command_id) == [nl |-> FALSE, code |-> code, command_id |-> command_id]
Newline == [nl |-> TRUE, code |-> <<>>, command_id |-> 0]

\* f.readline() at offset pos: the text up to and including the next newline, or
\* all the text left when no newline follows
RECURSIVE Readline(_, _)
ReadlineToEnd(txt, pos) == SubSeq(txt, pos + 1, Len(txt))
Readline(txt, pos) ==
    IF pos >= Len(txt) THEN <<>>
    ELSE IF txt[pos + 1].nl THEN <<txt[pos + 1]>>
    ELSE <<txt[pos + 1]>> \o Readline(txt, pos + 1)

\* line.strip(): the newline at the end of the line is removed
StripLine(line) == SelectSeq(line, LAMBDA c : ~c.nl)

\* coding_sandbox.py lines 146-151: a call of run_code has opened the request file
stdin_open ==
    /\ wr.pc = "idle"
    /\ wr.calls < MaxSubmits
    /\ \E code \in SubmitSnippets :
        wr' = [pc |-> "record", command_id |-> wr.calls + 1, code |-> code,
               calls |-> wr.calls + 1, last |-> wr.last]
    /\ UNCHANGED <<stdin_txt, tl>>

\* line 152: f.write(json.dumps({"code": code, "command_id": command_id}))
write_record ==
    /\ wr.pc = "record"
    /\ stdin_txt' = Append(stdin_txt, RecordText(wr.code, wr.command_id))
    /\ wr' = [wr EXCEPT !.pc = "newline"]
    /\ UNCHANGED tl

\* line 153: f.write("\n")
write_newline ==
    /\ wr.pc = "newline"
    /\ stdin_txt' = Append(stdin_txt, Newline)
    /\ wr' = [wr EXCEPT !.pc = "poll"]
    /\ UNCHANGED tl

\* lines 155-169: the call polls for its response file; it returns once the Driver
\* has served its command, and raises when its attempts run out before that
poll_end ==
    /\ wr.pc = "poll"
    /\ \/ /\ \E i \in 1..Len(tl.parsed) :
                /\ Len(tl.parsed[i]) = 1
                /\ tl.parsed[i][1].command_id = wr.command_id
          /\ wr' = [wr EXCEPT !.pc = "idle", !.last = "returned"]
       \/ wr' = [wr EXCEPT !.pc = "idle", !.last = "raised"]
    /\ UNCHANGED <<stdin_txt, tl>>

\* driver_program.py lines 35-40 and 47-60: one readline that returns text; the
\* line is stripped, a blank one skipped, any other handed to json.loads, which
\* raises on text that is not one JSON value
tail_readline ==
    /\ tl.state = "running"
    /\ tl.pos < Len(stdin_txt)
    /\ LET line == Readline(stdin_txt, tl.pos)
           stripped == StripLine(line) IN
       tl' = IF stripped = <<>>
             THEN [tl EXCEPT !.pos = @ + Len(line), !.blanks = @ + 1]
             ELSE [tl EXCEPT !.pos = @ + Len(line),
                             !.parsed = Append(@, stripped),
                             !.state = IF Len(stripped) = 1 THEN "running" ELSE "stopped"]
    /\ UNCHANGED <<stdin_txt, wr>>

AppendNext ==
    \/ (stdin_open /\ UNCHANGED <<agent_vars, rc_vars, reg_vars, srv_vars, drv_vars, ctl_vars, sbx_vars, osf, subs, drv_cur, ttl_vars, fig_vars>>)
    \/ (write_record /\ UNCHANGED <<agent_vars, rc_vars, reg_vars, srv_vars, drv_vars, ctl_vars, sbx_vars, osf, subs, drv_cur, ttl_vars, fig_vars>>)
    \/ (write_newline /\ UNCHANGED <<agent_vars, rc_vars, reg_vars, srv_vars, drv_vars, ctl_vars, sbx_vars, osf, subs, drv_cur, ttl_vars, fig_vars>>)
    \/ (poll_end /\ UNCHANGED <<agent_vars, rc_vars, reg_vars, srv_vars, drv_vars, ctl_vars, sbx_vars, osf, subs, drv_cur, ttl_vars, fig_vars>>)
    \/ (tail_readline /\ UNCHANGED <<agent_vars, rc_vars, reg_vars, srv_vars, drv_vars, ctl_vars, sbx_vars, osf, subs, drv_cur, ttl_vars, fig_vars>>)

SpecAppend == Init /\ [][AppendNext]_vars

-----------------------------------------------------------------------------
(* tools.py lines 13-17 with time: user_sandboxes and user_messages are    *)
(* cachetools TTLCaches.  A TTLCache stamps an item with timer() + ttl     *)
(* when the item is set; a lookup or a membership test compares the stamp  *)
(* with timer() and leaves it as it is.  An item whose stamp has been      *)
(* reached is gone for every operation; the model removes it when the      *)
(* timer reaches the stamp.  Time is counted in units of 600 s.            *)

MaxTime == 5

\* line 15, ttl=1800, in units of 600 s
ttl == 3

Caches == {"user_sandboxes", "user_messages"}

\* TTLCache.__getitem__: a lookup leaves the stamp of the item as it is
Accessed(link, time) == link

\* TTLCache.__contains__
InCache(cache, key, time) == cache[key].present /\ time < cache[key].expires

\* TTLCache.__setitem__
SetItem(cache, key, time) == [cache EXCEPT ![key] = [present |-> TRUE, expires |-> time + ttl]]

\* TTLCache.__getitem__ of a key that is present
GetItem(cache, key, time) == [cache EXCEPT ![key] = Accessed(@, time)]

\* TTLCache.__delitem__
DelItem(cache, key) == [cache EXCEPT ![key] = NoLink]

\* TTLCache.expire(time): the items whose stamp has been reached are removed
ExpireItems(cache, time) ==
    [key \in DOMAIN cache |-> IF cache[key].present /\ ~(time < cache[key].expires)
                              THEN NoLink ELSE cache[key]]

\* lines 33-35 and 51-53: if key not in cache: cache[key] = ...; return cache[key]
GetOrCreate(name, key) ==
    /\ links' = [links EXCEPT ![name] =
                    GetItem(IF InCache(@, key, now) THEN @ ELSE SetItem(@, key, now),
                            key, now)]
    /\ touched' = [touched EXCEPT ![name][key] = now]
    /\ UNCHANGED now

\* lines 41-46 and 58-59: if key in cache: ...; del cache[key]
DelIfPresent(name, key) ==
    /\ InCache(links[name], key, now)
    /\ links' = [links EXCEPT ![name] = DelItem(@, key)]
    /\ touched' = [touched EXCEPT ![name][key] = 0]
    /\ UNCHANGED now

\* get_sandbox(user_id), lines 28-35
ttl_get_sandbox == \E user_id \in Users : GetOrCreate("user_sandboxes", user_id)

\* reset_sandbox(user_id), lines 38-46
ttl_reset_sandbox == \E user_id \in Users : DelIfPresent("user_sandboxes", user_id)

\* get_messages(user_id), lines 49-53; the caller then reads or appends to the
\* list it was given, which is no operation of the cache
ttl_get_messages == \E user_id \in Users : GetOrCreate("user_messages", user_id)

\* clear_messages(user_id), lines 56-59
ttl_clear_messages == \E user_id \in Users : DelIfPresent("user_messages", user_id)

\* 600 s pass
timer ==
    /\ now < MaxTime
    /\ now' = now + 1
    /\ links' = [name \in Caches |-> ExpireItems(links[name], now + 1)]
    /\ UNCHANGED touched

TtlNext ==
    \/ (ttl_get_sandbox /\ UNCHANGED <<agent_vars, rc_vars, reg_vars, srv_vars, drv_vars, ctl_vars, sbx_vars, osf, subs, drv_cur, tail_vars, fig_vars>>)
    \/ (ttl_reset_sandbox /\ UNCHANGED <<agent_vars, rc_vars, reg_vars, srv_vars, drv_vars, ctl_vars, sbx_vars, osf, subs, drv_cur, tail_vars, fig_vars>>)
    \/ (ttl_get_messages /\ UNCHANGED <<agent_vars, rc_vars, reg_vars, srv_vars, drv_vars, ctl_vars, sbx_vars, osf, subs, drv_cur, tail_vars, fig_vars>>)
    \/ (ttl_clear_messages /\ UNCHANGED <<agent_vars, rc_vars, reg_vars, srv_vars, drv_vars, ctl_vars, sbx_vars, osf, subs, drv_cur, tail_vars, fig_vars>>)
    \/ (timer /\ UNCHANGED <<agent_vars, rc_vars, reg_vars, srv_vars, drv_vars, ctl_vars, sbx_vars, osf, subs, drv_cur, tail_vars, fig_vars>>)

SpecTtl == Init /\ [][TtlNext]_vars

-----------------------------------------------------------------------------
(* driver_program.py lines 43-44 and 85-99: the capture of Plotly figures. *)
(* After each snippet the Driver walks its globals and emits every figure  *)
(* whose id() is not in _captured_ids, a set of integers that holds no     *)
(* reference to the objects.  id() is the address of the object: an object *)
(* that is no longer referenced is freed, and a later object may be given  *)
(* its address.  Which address a new object gets is the allocator's        *)
(* choice.                                                                 *)

MaxSnippets == 3
MaxAddr == 3

FigNames == <<"fig", "fig2">>
Addresses == 1..MaxAddr

\* the statements of the snippets: name = go.Figure(), fig2 = fig, del name
NewFigure(name) == [op |-> "new", name |-> name]
Alias == [op |-> "alias", name |-> "fig2"]
DelName(name) == [op |-> "del", name |-> name]
FigSnippets ==
    {NewFigure("fig"), NewFigure("fig2"), Alias, DelName("fig"), DelName("fig2")}

\* the addresses of the objects the globals refer to
Referenced(g) == {g[name] : name \in DOMAIN g} \ {0}

\* lines 85-99: the figures emitted by one walk over the globals g, in the order of
\* the names, with the ids captured before in ids
RECURSIVE Capture(_, _, _, _)
Capture(names, g, at, ids) ==
    IF names = <<>> THEN [htmls |-> <<>>, ids |-> ids]
    ELSE LET obj_id == g[Head(names)] IN
         IF obj_id = 0 \/ obj_id \in ids
         THEN Capture(Tail(names), g, at, ids)
         ELSE LET rest == Capture(Tail(names), g, at, ids \cup {obj_id}) IN
              [htmls |-> <<at[obj_id]>> \o rest.htmls, ids |-> rest.ids]

\* lines 47-163 for one command: the snippet is executed, the figures in the
\* globals are captured and the response is written
fig_snippet ==
    /\ Len(fig_out) < MaxSnippets
    /\ \E stmt \in FigSnippets : \E addr \in Addresses :
        LET n == Len(fig_bound) + 1
            g == IF stmt.op = "new" THEN [fig_globals EXCEPT ![stmt.name] = addr]
                 ELSE IF stmt.op = "alias" THEN [fig_globals EXCEPT !["fig2"] = fig_globals["fig"]]
                 ELSE [fig_globals EXCEPT ![stmt.name] = 0]
            at == IF stmt.op = "new"
                  THEN [a \in Addresses |-> IF a = addr THEN n
                                            ELSE IF a \in DOMAIN fig_at THEN fig_at[a] ELSE 0]
                  ELSE fig_at
            c == Capture(FigNames, g, at, captured_ids)
        IN  \* go.Figure() is built while the old value of the name is still bound
            /\ stmt.op = "new" => addr \notin Referenced(fig_globals)
            \* no other statement allocates
            /\ stmt.op # "new" => addr = 1
            /\ stmt.op = "del" => fig_globals[stmt.name] # 0
            /\ fig_globals' = g
            /\ fig_at' = at
            /\ captured_ids' = c.ids
            /\ fig_out' = Append(fig_out, c.htmls)
            /\ fig_bound' = IF stmt.op = "new" THEN Append(fig_bound, Len(fig_out) + 1)
                            ELSE fig_bound

CaptureNext ==
    \/ (fig_snippet /\ UNCHANGED <<agent_vars, rc_vars, reg_vars, srv_vars, drv_vars, ctl_vars, sbx_vars, osf, subs, drv_cur, tail_vars, ttl_vars>>)

SpecCapture == Init /\ [][CaptureNext]_vars

-----------------------------------------------------------------------------
(* Observations used by the properties.                                    *)

IsMsgEvent(e) == e.type = "message"
IsUsageEvent(e) == e.type = "usage"

\* the messages generator t has yielded, usage events left out
MsgEvents(t) ==
    LET es == SelectSeq(emitted[t], IsMsgEvent) IN [i \in 1..Len(es) |-> es[i].msg]

\* the messages turn t has added to list l of heap h, in list order
AddedIn(h, l, t) ==
    LET ByT(x) == x.by = t
        xs == SelectSeq(h[l], ByT)
    IN  [i \in 1..Len(xs) |-> xs[i].m]

AddedTo(l, t) == AddedIn(heap, l, t)

\* the messages turn t has added to its Messages list
AppendedBy(t) == AddedTo(messages[t], t)

IsPrefix(s, u) == Len(s) <= Len(u) /\ SubSeq(u, 1, Len(s)) = s

Last(s) == s[Len(s)]

IsAssistant(m) == m.role = "assistant"
IsTool(m) == m.role = "tool"
CallsOf(m) == IF "tool_calls" \in DOMAIN m THEN m.tool_calls ELSE <<>>
IsFinalAssistant(m) == IsAssistant(m) /\ CallsOf(m) = <<>>

\* the number of assistant messages among the first i messages of ms
RECURSIVE AssistantsUpTo(_, _)
AssistantsUpTo(ms, i) ==
    IF i = 0 THEN 0
    ELSE AssistantsUpTo(ms, i - 1) + (IF IsAssistant(ms[i]) THEN 1 ELSE 0)

-----------------------------------------------------------------------------
(* C1: the message events a turn yields are exactly the messages it        *)
(* appended to Messages, in the same order, each appended before it is     *)
(* yielded.  At every moment the yielded messages are a prefix of the      *)
(* appended ones, at most one message is appended and not yet yielded, and *)
(* whenever the generator stands at a yield or has ended the two are       *)
(* equal; the turn appends to no other list.                               *)
C1_Ordering ==
    \A t \in Turns :
        /\ IsPrefix(MsgEvents(t), AppendedBy(t))
        /\ Len(AppendedBy(t)) <= Len(MsgEvents(t)) + 1
        /\ pc[t] \notin {"emit", "temit"} => MsgEvents(t) = AppendedBy(t)
        /\ \A l \in 1..Len(heap) : l # messages[t] => AddedTo(l, t) = <<>>

\* a turn has returned after yielding an assistant message with two tool calls,
\* both tool messages and the final message
C1_Witness ==
    \E t \in Turns :
        /\ pc[t] = "done"
        /\ Len(MsgEvents(t)) = 4
        /\ MsgEvents(t) = AppendedBy(t)

-----------------------------------------------------------------------------
(* C2: after an assistant event with tool calls c1..cn the following       *)
(* message events are tool messages for c1, c2, ... in that order, one per *)
(* call, and the same holds of what was appended; no further model call is *)
(* made (the turn stands at the call, or has obtained a further outcome)   *)
(* before all n have been appended and yielded.                            *)
ToolRunAfter(ms, i) ==
    LET calls == CallsOf(ms[i]) IN
    \A j \in 1..Len(calls) :
        i + j <= Len(ms) =>
            /\ IsTool(ms[i + j])
            /\ ms[i + j].tool_call_id = calls[j].id

Answered(ms, i) == Len(ms) >= i + Len(CallsOf(ms[i]))

C2_ToolPairing ==
    \A t \in Turns :
        /\ \A i \in 1..Len(MsgEvents(t)) :
            IsAssistant(MsgEvents(t)[i]) =>
                /\ ToolRunAfter(MsgEvents(t), i)
                /\ ToolRunAfter(AppendedBy(t), i)
                /\ (\/ pc[t] = "call"
                    \/ Len(responses[t]) > AssistantsUpTo(MsgEvents(t), i))
                    => /\ Answered(MsgEvents(t), i)
                       /\ Answered(AppendedBy(t), i)
        /\ \A i \in 1..Len(MsgEvents(t)) :
            IsTool(MsgEvents(t)[i]) =>
                \E k \in 1..(i - 1) :
                    /\ IsAssistant(MsgEvents(t)[k])
                    /\ k + Len(CallsOf(MsgEvents(t)[k])) >= i
                    /\ \A j \in (k + 1)..i : IsTool(MsgEvents(t)[j])

\* a second model call was made after an assistant event with two tool calls
C2_Witness ==
    \E t \in Turns :
        /\ Len(responses[t]) >= 2
        /\ Len(MsgEvents(t)) >= 3
        /\ Len(CallsOf(MsgEvents(t)[1])) = 2
        /\ IsTool(MsgEvents(t)[2])
        /\ IsTool(MsgEvents(t)[3])

-----------------------------------------------------------------------------
(* C3 as stated: every turn that has ended by itself (returned, or was    *)
(* ended by an exception) has a final assistant message as its last event, *)
(* and no event follows a final assistant message.                         *)
LastIsFinal(t) ==
    /\ emitted[t] # <<>>
    /\ IsMsgEvent(Last(emitted[t]))
    /\ IsFinalAssistant(Last(emitted[t]).msg)

FinalOnlyLast(t) ==
    \A i \in 1..Len(emitted[t]) :
        (IsMsgEvent(emitted[t][i]) /\ IsFinalAssistant(emitted[t][i].msg))
            => i = Len(emitted[t])

-----------------------------------------------------------------------------
(* C4 as stated: when the invocation of a tool call throws, a tool message *)
(* for that call, carrying the exception's text, is still appended and     *)
(* yielded and the turn goes on.  A turn that the exception of a tool      *)
(* invocation has ended contradicts it.                                    *)
C4_ToolErrorsSurface ==
    \A t \in Turns :
        pc[t] = "tool_error" =>
            LET tool_call == response[t].message.tool_calls[tool_idx[t]] IN
            /\ AppendedBy(t) # <<>>
            /\ IsTool(Last(AppendedBy(t)))
            /\ Last(AppendedBy(t)).tool_call_id = tool_call.id
            /\ Last(MsgEvents(t)) = Last(AppendedBy(t))

\* The part of C4 that run_code itself guarantees (SpecRunCode): an exception raised
\* while finding the sandbox or submitting the code comes back in the text block.
RunCodeCarriesError ==
    (rc_pc = "out" /\ rc_in.raised) =>
        /\ rc_out[1].type = "text"
        /\ Contains(rc_out[1].text, rc_in.err)

-----------------------------------------------------------------------------
(* C5: when a model call of a turn fails, the turn is ended by it, the     *)
(* generator yields no event at or after the failing call, and the turn's  *)
(* Messages list keeps what it held: the failing call changes no list, and *)
(* afterwards the list only grows at its end and by no message of the turn.*)
HasFailedIn(rs) == \E i \in 1..Len(rs) : rs[i] = ModelError

C5_State ==
    \A t \in Turns :
        HasFailedIn(responses[t]) =>
            /\ pc[t] = "model_error"
            /\ Last(responses[t]) = ModelError
            /\ ~HasFailedIn(SubSeq(responses[t], 1, Len(responses[t]) - 1))

C5_Step ==
    \A t \in Turns :
        HasFailedIn(responses'[t]) =>
            /\ emitted'[t] = emitted[t]
            /\ messages'[t] = messages[t]
            /\ IsPrefix(heap[messages[t]], heap'[messages[t]])
            /\ AddedIn(heap', messages[t], t) = AddedIn(heap, messages[t], t)
            /\ ~HasFailedIn(responses[t]) => heap' = heap

C5_ModelFailure == []C5_State /\ [][C5_Step]_vars

\* a model call failed after the turn had appended an assistant message and two
\* tool messages
C5_Witness ==
    \E t \in Turns :
        /\ pc[t] = "model_error"
        /\ Len(AppendedBy(t)) = 3
        /\ MsgEvents(t) = AppendedBy(t)

-----------------------------------------------------------------------------
(* C6, C7: usage events.                                                   *)

\* the responses turn t has obtained (failed calls left out)
Resp(t) == SelectSeq(responses[t], IsResponse)

\* the totals of the usage events turn t has yielded
UsageTotals(t) ==
    LET es == SelectSeq(emitted[t], IsUsageEvent) IN [i \in 1..Len(es) |-> es[i].total]

Declares(r) == r.usage.kind # "absent"
Declared(r) == IF r.usage.kind = "int" THEN r.usage.n ELSE 0

\* the sum of the counts declared by the first k responses of rs
RECURSIVE DeclaredSum(_, _)
DeclaredSum(rs, k) == IF k = 0 THEN 0 ELSE DeclaredSum(rs, k - 1) + Declared(rs[k])

\* the totals due after the first k responses: one per response that carries usage
RECURSIVE DueTotals(_, _)
DueTotals(rs, k) ==
    IF k = 0 THEN <<>>
    ELSE DueTotals(rs, k - 1)
            \o (IF Declares(rs[k]) THEN <<DeclaredSum(rs, k)>> ELSE <<>>)

\* the response behind the assistant message event at position i of emitted[t]
ResponseAt(t, i) ==
    LET IsAsst(k) == IsMsgEvent(emitted[t][k]) /\ IsAssistant(emitted[t][k].msg)
    IN  Resp(t)[Cardinality({k \in 1..i : IsAsst(k)})]

\* a usage event is followed by nothing yet or by an assistant message
UsageThenAssistant(t) ==
    \A i \in 1..Len(emitted[t]) :
        (IsUsageEvent(emitted[t][i]) /\ i < Len(emitted[t]))
            => /\ IsMsgEvent(emitted[t][i + 1])
               /\ IsAssistant(emitted[t][i + 1].msg)

C7_Original ==
    ~overlapped =>
        \A i \in 1..(Len(session_usage) - 1) : session_usage[i] <= session_usage[i + 1]

(* C7 amended: within one turn the total of each usage event is greater    *)
(* than or equal to the total of the turn's previous usage event;          *)
(* total_tokens starts at 0 in every turn, so the first total of a turn is *)
(* what its first response declares, whatever earlier turns yielded.       *)
C7_UsageMonotone ==
    \A t \in Turns :
        /\ \A i \in 1..(Len(UsageTotals(t)) - 1) : UsageTotals(t)[i] <= UsageTotals(t)[i + 1]
        /\ UsageTotals(t) # <<>> =>
            \E k \in 1..Len(Resp(t)) :
                /\ UsageTotals(t)[1] = Declared(Resp(t)[k])
                /\ \A j \in 1..(k - 1) : ~Declares(Resp(t)[j])

\* two turns, one after the other: the first ended with the total 1, the second
\* started with the total 0
C7_Witness ==
    /\ ~overlapped
    /\ Len(pc) = 2
    /\ UsageTotals(1) = <<1>>
    /\ UsageTotals(2) = <<0>>

-----------------------------------------------------------------------------
(* C8: a turn run on a list that begins with a system message adds no      *)
(* system message and leaves the first message as it is, and a list on     *)
(* which any number of turns were run holds exactly one system message, at *)
(* index 0.                                                                *)
IsSystemItem(x) == x.m.role = "system"
SystemCount(list) == Len(SelectSeq(list, IsSystemItem))
BeginsWithSystem(list) == list # <<>> /\ list[1].m.role = "system"

C8_State ==
    \A t \in Turns :
        /\ BeginsWithSystem(heap[messages[t]])
        /\ SystemCount(heap[messages[t]]) = 1

C8_Step ==
    \A l \in 1..Len(heap) :
        BeginsWithSystem(heap[l]) =>
            /\ heap'[l][1] = heap[l][1]
            /\ SystemCount(heap'[l]) = SystemCount(heap[l])

C8_SystemPrompt == []C8_State /\ [][C8_Step]_vars

\* two turns were run on the same list and both appended to it
C8_Witness ==
    \E t, u \in Turns :
        /\ t # u
        /\ messages[t] = messages[u]
        /\ AppendedBy(t) # <<>>
        /\ AppendedBy(u) # <<>>

-----------------------------------------------------------------------------
(* C9 as stated: the list bound to MESSAGES is always empty or begins with *)
(* a system message; after POST /chat it is the system prompt followed by  *)
(* the user message.                                                       *)
C9_SystemFirst ==
    heap[MESSAGES] = <<>> \/ heap[MESSAGES][1].m.role = "system"

-----------------------------------------------------------------------------
(* C10: run_code returns one text block, then one image block per image of *)
(* the result in the result's order, then one plotly block per HTML        *)
(* fragment in the result's order; an image block is image/png exactly     *)
(* when its base64 string begins with iVBOR and image/jpeg otherwise.      *)
ReturnedImages == IF rc_in.raised THEN <<>> ELSE Get(rc_in.result, "images", <<>>)
ReturnedHtmls == IF rc_in.raised THEN <<>> ELSE Get(rc_in.result, "plotly_htmls", <<>>)

BeginsWithPngMagic(b) ==
    /\ Len(b) >= 5
    /\ b[1] = "i" /\ b[2] = "V" /\ b[3] = "B" /\ b[4] = "O" /\ b[5] = "R"

C10_ContentBlocks ==
    rc_pc = "out" =>
        LET ni == Len(ReturnedImages)
            np == Len(ReturnedHtmls)
        IN  /\ Len(rc_out) = 1 + ni + np
            /\ rc_out[1].type = "text"
            /\ \A i \in 1..ni :
                /\ rc_out[1 + i].type = "image_url"
                /\ rc_out[1 + i].image_url.base64 = ReturnedImages[i]
                /\ rc_out[1 + i].image_url.mime \in {"image/png", "image/jpeg"}
                /\ rc_out[1 + i].image_url.mime = "image/png"
                        <=> BeginsWithPngMagic(ReturnedImages[i])
            /\ \A j \in 1..np :
                /\ rc_out[1 + ni + j].type = "plotly_html"
                /\ rc_out[1 + ni + j].html = ReturnedHtmls[j]

\* run_code has returned a PNG block, a JPEG block for a proper prefix of the magic,
\* and two different plotly blocks
C10_Witness ==
    /\ rc_pc = "out"
    /\ Len(rc_out) = 5
    /\ rc_out[2].type = "image_url" /\ rc_out[2].image_url.mime = "image/png"
    /\ rc_out[3].type = "image_url" /\ rc_out[3].image_url.mime = "image/jpeg"
    /\ rc_out[3].image_url.base64 = <<"i", "V", "B", "O">>
    /\ rc_out[4].type = "plotly_html"
    /\ rc_out[5].type = "plotly_html"
    /\ rc_out[4] # rc_out[5]

-----------------------------------------------------------------------------
(* C11..C17: the sandbox registry (SpecRegistry).                          *)

\* call c went through get_sandbox and got a Controller from it
GotSandbox(c) ==
    /\ reg_calls[c].op \in {"get_sandbox", "run_code"}
    /\ reg_calls[c].ret # 0

(* C11 as stated: get_sandbox calls for one user with no reset_sandbox or  *)
(* init_sandbox of that user between them all return the same Controller,  *)
(* and only one Controller is constructed for the user meanwhile.          *)
C11_Original ==
    /\ \A c, d \in RegCalls :
        (/\ GotSandbox(c) /\ GotSandbox(d)
         /\ reg_calls[c].user_id = reg_calls[d].user_id
         /\ reg_calls[c].at.resets = reg_calls[d].at.resets)
            => reg_calls[c].ret = reg_calls[d].ret
    /\ \A i, j \in 1..Len(ctl) :
        (ctl[i].key = ctl[j].key /\ ctl[i].gen.resets = ctl[j].gen.resets) => i = j

(* C11 amended: get_sandbox calls for one user, sequential or concurrent,  *)
(* with no reset_sandbox or init_sandbox of that user and no expiry of the *)
(* user's entry between them, all return the same Controller; at most one  *)
(* Controller is constructed for the user meanwhile, and it is the one     *)
(* returned.                                                               *)
C11_Singleton ==
    /\ \A c, d \in RegCalls :
        (/\ GotSandbox(c) /\ GotSandbox(d)
         /\ reg_calls[c].user_id = reg_calls[d].user_id
         /\ reg_calls[c].at = reg_calls[d].at)
            => reg_calls[c].ret = reg_calls[d].ret
    /\ \A i, j \in 1..Len(ctl) :
        (ctl[i].key = ctl[j].key /\ ctl[i].gen = ctl[j].gen) => i = j
    /\ \A c \in RegCalls :
        GotSandbox(c) =>
            /\ reg_calls[c].ret \in 1..Len(ctl)
            /\ ctl[reg_calls[c].ret].key = reg_calls[c].user_id
            /\ ctl[reg_calls[c].ret].gen = reg_calls[c].at

\* two get_sandbox calls of one user returned the Controller the first of them
\* constructed; the entry then expired and a third call constructed another one
C11_Witness ==
    /\ Len(reg_calls) = 3
    /\ \A c \in RegCalls : reg_calls[c].op = "get_sandbox" /\ reg_calls[c].user_id = "u1"
    /\ reg_calls[1].new = 1 /\ reg_calls[1].ret = 1
    /\ reg_calls[2].new = 0 /\ reg_calls[2].ret = 1
    /\ reg_calls[3].new = 2 /\ reg_calls[3].ret = 2
    /\ gen["u1"] = [resets |-> 0, expiries |-> 1]

\* the Controllers to which the code of call c was submitted, one per submission
SubmissionsOf(c) ==
    { <<k, i>> \in (1..Len(ctl)) \X (1..MaxCalls) :
        i <= Len(ctl[k].submits) /\ ctl[k].submits[i] = c }

-----------------------------------------------------------------------------
(* C13..C15: main.py serving several users (SpecServer).                   *)

(* C13 as stated: a step made for one user (a page load, /clear, /chat, a  *)
(* step of that user's agent turn) leaves every other user's Messages and  *)
(* registered Controller as they were.                                     *)
C13_Step ==
    \A b \in Users :
        request'.user # b =>
            /\ MessagesIn(heap', MESSAGES', b) = MessagesIn(heap, MESSAGES, b)
            /\ user_sandboxes'[b] = user_sandboxes[b]

C13_Isolation == [][C13_Step]_vars

\* The registry half of C13 (SpecRegistry): a step of a call made for one user
\* leaves the entries of the other users as they were; only expiry removes them.
C13_RegistryStep ==
    \A b \in Users :
        (/\ user_sandboxes'[b] # user_sandboxes[b]
         /\ ~(user_sandboxes'[b] = 0 /\ gen'[b].expiries = gen[b].expiries + 1))
            => \E c \in 1..Len(reg_calls') :
                /\ reg_calls'[c].user_id = b
                /\ c \in RegCalls => reg_calls'[c] # reg_calls[c]

C13_RegistryIsolation == [][C13_RegistryStep]_vars

(* C14 as stated: every SSE stream of /agent-stream yields close exactly   *)
(* once, as its last event, after all its AgentEvent events.               *)
CloseCount(events) == Cardinality({i \in 1..Len(events) : events[i] = "close"})

C14_CloseAfterAnswer ==
    \A t \in Turns :
        (/\ stream[t] \in {"ended", "raised"}
         /\ \E i \in 1..Len(emitted[t]) :
                IsMsgEvent(emitted[t][i]) /\ IsFinalAssistant(emitted[t][i].msg))
            => CloseCount(sse[t]) = 1

(* C15 as stated: when GET / or POST /clear of user u has been served, u's *)
(* Messages list is empty and that request has scheduled exactly one       *)
(* init_sandbox for u.                                                     *)
C15_ClearAndInit ==
    request.route \in {"/", "/clear"} =>
        /\ MessagesOf(request.user) = <<>>
        /\ Len(tasks) = 1
        /\ \A i \in 1..Len(tasks) : tasks[i] = Request("init_sandbox", request.user)

\* The half of C15 that holds: the Messages list is empty after GET / and /clear.
C15_Cleared ==
    request.route \in {"/", "/clear"} => MessagesOf(request.user) = <<>>

-----------------------------------------------------------------------------
\* call c completes in this step
Completes(c) == reg_calls[c].pc # "done" /\ reg_calls'[c].pc = "done"

(* C16: when reset_sandbox(u) ends, no Controller is registered for u.  If *)
(* one was registered, terminate was called on it exactly once by the      *)
(* call, and an exception of terminate neither ends the call nor keeps the *)
(* entry; if none was registered, nothing is terminated and nothing is     *)
(* raised.                                                                 *)
C16_State ==
    \A c \in RegCalls :
        (reg_calls[c].op = "reset_sandbox" /\ reg_calls[c].pc = "done") =>
            /\ reg_calls[c].raised # "terminate"
            /\ reg_calls[c].old # 0 =>
                /\ reg_calls[c].trm = 1
                /\ ctl[reg_calls[c].old].terminate_calls >= 1
            /\ reg_calls[c].old = 0 =>
                /\ reg_calls[c].trm = 0
                /\ reg_calls[c].raised = ""

C16_Step ==
    /\ \A c \in RegCalls :
        (reg_calls[c].op = "reset_sandbox" /\ Completes(c)) =>
            /\ user_sandboxes'[reg_calls[c].user_id] = 0
            /\ ctl' = ctl
    /\ \A c \in RegCalls : \A k \in 1..Len(ctl) :
        (reg_calls[c].op = "reset_sandbox" /\ reg_calls'[c].trm # reg_calls[c].trm) =>
            /\ reg_calls'[c].trm = reg_calls[c].trm + 1
            /\ ctl'[k].terminate_calls =
                    ctl[k].terminate_calls + (IF k = reg_calls[c].old THEN 1 ELSE 0)

C16_Reset == []C16_State /\ [][C16_Step]_vars

\* reset_sandbox found a Controller, its terminate raised, and the call ended
\* normally with the entry removed
C16_Witness ==
    \E c \in RegCalls :
        /\ reg_calls[c].op = "reset_sandbox"
        /\ reg_calls[c].pc = "done"
        /\ reg_calls[c].old # 0
        /\ reg_calls[c].term_raised
        /\ reg_calls[c].raised = ""
        /\ user_sandboxes[reg_calls[c].user_id] = 0

(* C17: init_sandbox(u) calls terminate exactly once on the Controller it  *)
(* found registered for u, and on none if it found none, before it         *)
(* constructs; an exception of that terminate does not end the call; and   *)
(* when the call completes the Controller registered for u is the one it   *)
(* has just constructed.                                                   *)
C17_State ==
    \A c \in RegCalls :
        reg_calls[c].op = "init_sandbox" =>
            /\ reg_calls[c].raised # "terminate"
            /\ reg_calls[c].trm <= 1
            /\ reg_calls[c].old = 0 => reg_calls[c].trm = 0
            /\ (reg_calls[c].pc = "construct" \/ reg_calls[c].new # 0) =>
                /\ reg_calls[c].trm = (IF reg_calls[c].old # 0 THEN 1 ELSE 0)
                /\ reg_calls[c].old # 0 =>
                    ctl[reg_calls[c].old].terminate_calls >= 1
                /\ reg_calls[c].new # 0 => reg_calls[c].new # reg_calls[c].old

C17_Step ==
    \A c \in RegCalls :
        (/\ reg_calls[c].op = "init_sandbox"
         /\ Completes(c)
         /\ reg_calls'[c].raised = "") =>
            /\ Len(ctl') = Len(ctl) + 1
            /\ reg_calls'[c].new = Len(ctl')
            /\ ctl'[Len(ctl')].by = c
            /\ ctl'[Len(ctl')].terminate_calls = 0
            /\ user_sandboxes'[reg_calls[c].user_id] = Len(ctl')

C17_Init == []C17_State /\ [][C17_Step]_vars

\* init_sandbox found a Controller, its terminate raised, and the call ended with
\* the Controller it constructed registered
C17_Witness ==
    \E c \in RegCalls :
        /\ reg_calls[c].op = "init_sandbox"
        /\ reg_calls[c].pc = "done"
        /\ reg_calls[c].old # 0
        /\ reg_calls[c].term_raised
        /\ reg_calls[c].new # 0
        /\ ctl[reg_calls[c].old].terminate_calls = 1
        /\ user_sandboxes[reg_calls[c].user_id] = reg_calls[c].new

-----------------------------------------------------------------------------
(* C18, C19: the Driver (SpecDriver).                                      *)

WellFormed(line) == ~line.blank /\ line.has_code /\ line.has_id

(* C18 as stated: whatever a snippet does, the Driver keeps running and    *)
(* has written the response file of every request with code and            *)
(* command_id that it has read.                                            *)
C18_DriverNeverStops ==
    /\ drv_state = "running"
    /\ \A i \in 1..drv_pos : WellFormed(REQ[i]) => REQ[i].command_id \in DOMAIN RES

\* What the code does guarantee: the loop is stopped only by a snippet that raises
\* something that is not an Exception, and every other request read is answered.
C18_StopsOnlyOnBaseException ==
    /\ drv_state = "stopped" =>
        /\ drv_pos >= 1
        /\ WellFormed(REQ[drv_pos])
        /\ \E i \in 1..Len(REQ[drv_pos].code) :
            /\ REQ[drv_pos].code[i].stmt = "raise"
            /\ REQ[drv_pos].code[i].name \notin {"ValueError", "NameError"}
    /\ \A i \in 1..drv_pos :
        (WellFormed(REQ[i]) /\ ~(drv_state = "stopped" /\ i = drv_pos))
            => REQ[i].command_id \in DOMAIN RES

(* C19: a name is bound in the Driver's environment exactly when the last  *)
(* statement that bound or deleted it, among all statements run so far in  *)
(* the process, was a binding, and it then has the value of that binding:  *)
(* bindings survive later snippets, including snippets that raised, and    *)
(* nothing but a snippet's own statements changes them.                    *)
Touches(name) ==
    { i \in 1..Len(drv_trace) :
        drv_trace[i].name = name /\ drv_trace[i].stmt \in {"bind", "del"} }

Max(S) == CHOOSE m \in S : \A n \in S : n <= m

C19_Persistence ==
    /\ DOMAIN drv_globals \subseteq Names
    /\ \A name \in Names :
        IF Touches(name) = {} THEN name \notin DOMAIN drv_globals
        ELSE LET s == drv_trace[Max(Touches(name))] IN
             IF s.stmt = "bind"
             THEN name \in DOMAIN drv_globals /\ drv_globals[name] = s.value
             ELSE name \notin DOMAIN drv_globals

\* x was bound by the first snippet, the second snippet bound y and then raised,
\* and the third snippet printed the x of the first
C19_Witness ==
    /\ drv_pos = 3
    /\ DOMAIN RES = {1, 2, 3}
    /\ RES[2].stderr = <<"ValueError", ": ">>
    /\ RES[3].stdout = <<1>>
    /\ drv_globals = [n \in {"x", "y"} |-> IF n = "x" THEN 1 ELSE 2]

-----------------------------------------------------------------------------
\* the text block tools.run_code builds from an exception of class kind
ErrorBlocks(kind) == << [type |-> "text", text |-> <<"stderr:\n", kind>>] >>

\* the classes of the exception that ends a read of a response file
PollErrors == {"FileNotFoundError", "FilesystemExecutionError"}

\* m is the tool message of a call whose reads of the response file all failed
IsTimeoutMsg(m) ==
    /\ m.role = "tool"
    /\ \E kind \in PollErrors : m.content = ErrorBlocks(kind)

\* the step in which ModalSandbox.run_code gives up on a response file that the
\* Driver has not written
GivesUp == poll.phase = "poll" /\ poll'.phase = "idle" /\ poll.command_id \notin DOMAIN RES

C20_Exhausts ==
    GivesUp =>
        LET t == poll.turn
            tool_call == response[t].message.tool_calls[tool_idx[t]] IN
        /\ poll.attempt + 1 = MAXIMUM_OPEN_FILE_ATTEMPTS
        /\ \E kind \in PollErrors : tool_msg'[t] = ToolMsg(tool_call, ErrorBlocks(kind))
        /\ heap'[messages[t]] = Append(heap[messages[t]], Item(tool_msg'[t], t))
        /\ pc'[t] = "temit"
        /\ emitted'[t] = emitted[t]

C20_KeepsPolling ==
    (/\ poll.phase = "poll"
     /\ poll.command_id \notin DOMAIN RES
     /\ poll.attempt + 1 < MAXIMUM_OPEN_FILE_ATTEMPTS
     /\ poll' # poll)
        => poll' = [poll EXCEPT !.attempt = @ + 1] /\ UNCHANGED agent_vars

C20_Resumes ==
    \A t \in Turns :
        (pc[t] = "temit" /\ IsTimeoutMsg(tool_msg[t]) /\ pc'[t] # pc[t]) =>
            /\ emitted'[t] = Append(emitted[t], MsgEvent(tool_msg[t]))
            /\ IF tool_idx[t] < Len(response[t].message.tool_calls)
               THEN pc'[t] = "tool" /\ tool_idx'[t] = tool_idx[t] + 1
               ELSE pc'[t] = "call"

(* C20: when the response file of a submitted request never appears,       *)
(* ModalSandbox.run_code keeps reading until its attempts are used up and  *)
(* raises only then; tools.run_code turns the exception into a tool        *)
(* message whose only block is a text block carrying the exception's text, *)
(* which run_agent appends and yields; the turn is not ended by it: the    *)
(* for loop goes on with the next tool call, or after the last one the     *)
(* while loop stands at the next model call.                               *)
C20_Timeout == [][C20_Exhausts /\ C20_KeepsPolling /\ C20_Resumes]_vars

\* a turn yielded the tool message of a timed-out call, made a further model
\* call afterwards and returned with its answer
C20_Witness ==
    \E t \in Turns :
        /\ pc[t] = "done"
        /\ Len(responses[t]) = 2
        /\ IsResponse(responses[t][2])
        /\ \E i \in 1..Len(emitted[t]) :
            /\ emitted[t][i].type = "message"
            /\ emitted[t][i].msg = ToolMsg(call_b, ErrorBlocks("FileNotFoundError"))
        /\ drv_state = "stopped"

-----------------------------------------------------------------------------
\* the processes that constructor call k made the host start
CreatedBy(k) == { p \in ProcessIds : procs[p].by = k }

InitRan(k) ==
    /\ cons[k].sandbox \in ProcessIds
    /\ \E i \in 1..Len(procs[cons[k].sandbox].ran) :
        procs[cons[k].sandbox].ran[i] = [code |-> cons[k].init_script, by |-> k]

(* C22: whenever a constructor call that was given an init script has      *)
(* returned, that script has been executed in the process the Controller   *)
(* holds, on the path that starts a process and on the path that attaches  *)
(* to a live one.                                                          *)
C22_InitRan ==
    \A k \in Constructions :
        (cons[k].pc = "returned" /\ HasInitScript(cons[k].init_script)) => InitRan(k)

\* the same for the calls that started their process
C22_InitRanWhenCreated ==
    \A k \in Constructions :
        (cons[k].pc = "returned" /\ HasInitScript(cons[k].init_script) /\ cons[k].created = 1)
            => InitRan(k)

-----------------------------------------------------------------------------
\* the step in which turn t appends the assistant message of its last response
AppendsAssistant(t) == pc[t] = "msg" /\ pc'[t] = "emit"

LastOf(list) == list[Len(list)]

C23_Step ==
    \A t \in Turns :
        AppendsAssistant(t) =>
            /\ heap'[messages[t]] # <<>>
            /\ LastOf(heap'[messages[t]]).m = response[t].message

(* C23: every assistant message the gateway returns is appended to         *)
(* Messages exactly as returned, with every field it came with (the        *)
(* signature/thought fields among them), the final assistant message of a  *)
(* turn as well as one that carries tool calls.                            *)
C23_Preserved == [][C23_Step]_vars

\* the same for the assistant messages that carry tool calls
C23_ToolCallStep ==
    \A t \in Turns :
        (AppendsAssistant(t) /\ ~IsFinal(response[t].message)) =>
            /\ heap'[messages[t]] = Append(heap[messages[t]], Item(response[t].message, t))
            /\ "thinking_blocks" \in DOMAIN LastOf(heap'[messages[t]]).m

C23_ToolCallsPreserved == [][C23_ToolCallStep]_vars

-----------------------------------------------------------------------------
\* the opens made so far all failed with an error the call retries on
AllRetryable(seen) ==
    \A i \in 1..Len(seen) : seen[i] \in retry_on_exceptions(osf.extra_exceptions)

\* the with body has raised nothing: what happened so far is due to the opens
OpensOnly == osf.state # "idle" /\ osf.thrown = ""

(* C24: for _open_sandbox_file with max_attempts = m.  When the open       *)
(* failed k < m times with errors the call retries on and then succeeded,  *)
(* the with body got the file and exactly k+1 opens were made; before the  *)
(* m-th failure the call keeps trying; when the open failed m times in a   *)
(* row the m-th error is raised to the caller, after exactly m opens.      *)
C24_Retry ==
    OpensOnly =>
        /\ osf.opens = Len(osf.seen)
        /\ osf.state \in {"body", "returned"} =>
            LET k == osf.opens - 1 IN
            /\ k < osf.max_attempts
            /\ osf.seen[k + 1] = "ok"
            /\ AllRetryable(SubSeq(osf.seen, 1, k))
            /\ osf.yields = 1
            /\ osf.sleeps = k
        /\ osf.state = "open" =>
            /\ osf.opens < osf.max_attempts
            /\ AllRetryable(osf.seen)
        /\ (osf.state = "raised" /\ AllRetryable(osf.seen)) =>
            /\ osf.opens = osf.max_attempts
            /\ osf.err = osf.seen[osf.opens]
            /\ osf.yields = 0
        /\ (AllRetryable(osf.seen) /\ osf.opens >= osf.max_attempts) => osf.state = "raised"

\* two failed opens, then the third and last allowed one succeeded and the with
\* body ran to its end
C24_Witness ==
    /\ OpensOnly
    /\ osf.state = "returned"
    /\ osf.max_attempts = 3
    /\ osf.seen = <<"FilesystemExecutionError", "FileNotFoundError", "ok">>

\* three failed opens out of three allowed: the error is raised
C24_WitnessRaised ==
    /\ OpensOnly
    /\ osf.state = "raised"
    /\ osf.max_attempts = 3
    /\ osf.seen = <<"FilesystemExecutionError", "FilesystemExecutionError", "FilesystemExecutionError">>

-----------------------------------------------------------------------------
\* the step in which call s opens its response file successfully: it goes on to
\* decode what it read
OpensResponse(s) ==
    /\ subs[s].pc = "poll"
    /\ \/ subs'[s].pc = "returned"
       \/ subs'[s].pc = "raised" /\ subs'[s].err = "JSONDecodeError"

C25_Step ==
    \A s \in Submits :
        OpensResponse(s) =>
            /\ subs[s].command_id \in DOMAIN RES
            /\ IsWritten(RES[subs[s].command_id])
            /\ subs'[s].pc = "returned"

(* C25: whenever a call of run_code opens the response file of its command *)
(* successfully, the Driver has finished writing it: the file holds the    *)
(* complete JSON object and the call decodes it, whatever the interleaving *)
(* of the Driver's create-then-write with the call's reads.                *)
C25_NeverPartial == [][C25_Step]_vars

\* a call that returned has decoded a complete response
C25_ReturnedComplete ==
    \A s \in Submits : subs[s].pc = "returned" => IsWritten(subs[s].result)

-----------------------------------------------------------------------------
\* the tool calls an item of a Messages list asks for
ToolCallsOf(item) ==
    IF item.m.role = "assistant" /\ "tool_calls" \in DOMAIN item.m THEN item.m.tool_calls
    ELSE <<>>

AsksFor(item, id) == \E k \in 1..Len(ToolCallsOf(item)) : ToolCallsOf(item)[k].id = id

\* the tool call with this id of the assistant message at position i is answered:
\* a tool message with its id follows, before any later assistant message asks
\* for a call with the same id
AnsweredAt(list, i, id) ==
    \E j \in (i + 1)..Len(list) :
        /\ list[j].m.role = "tool"
        /\ list[j].m.tool_call_id = id
        /\ \A h \in (i + 1)..(j - 1) : ~AsksFor(list[h], id)

AllAnswered(list) ==
    \A i \in 1..Len(list) :
        \A k \in 1..Len(ToolCallsOf(list[i])) :
            AnsweredAt(list, i, ToolCallsOf(list[i])[k].id)

\* the step in which turn t makes a model call (it returns a response or raises)
MakesModelCall(t) == pc[t] = "call" /\ pc'[t] \in {"msg", "model_error"}

C26_Step == \A t \in Turns : MakesModelCall(t) => AllAnswered(heap[messages[t]])

(* C26: every model call of every turn is made with a Messages list in     *)
(* which each tool call of each assistant message is answered by a tool    *)
(* message, also in a turn that follows one that an exception ended part   *)
(* way or whose client disconnected.                                       *)
C26_EveryCallAnswered == [][C26_Step]_vars

\* the same for the tool calls the turn itself was asked for
C26_OwnStep ==
    \A t \in Turns :
        MakesModelCall(t) =>
            LET list == heap[messages[t]] IN
            \A i \in 1..Len(list) :
                list[i].by = t =>
                    \A k \in 1..Len(ToolCallsOf(list[i])) :
                        AnsweredAt(list, i, ToolCallsOf(list[i])[k].id)

C26_OwnAnswered == [][C26_OwnStep]_vars

-----------------------------------------------------------------------------
\* (I1) the tool message at position j answers a tool call of an earlier
\* assistant message
HasEarlierCall(list, j) ==
    \E i \in 1..(j - 1) : AsksFor(list[i], list[j].m.tool_call_id)

\* (I2) the tool message at position j is the k-th message after an assistant
\* message whose k-th tool call it answers, with the answers to the calls before
\* it in between
InPlace(list, j) ==
    \E i \in 1..(j - 1) :
        LET calls == ToolCallsOf(list[i])
            k == j - i IN
        /\ k <= Len(calls)
        /\ \A h \in 1..k :
            /\ list[i + h].m.role = "tool"
            /\ list[i + h].m.tool_call_id = calls[h].id

ToolMessagesOf(list) == { j \in 1..Len(list) : list[j].m.role = "tool" }

C27_Paired ==
    \A l \in 1..Len(heap) :
        \A j \in ToolMessagesOf(heap[l]) : HasEarlierCall(heap[l], j)

\* (I2) while no /chat request and no second turn comes in between
C27_ContiguousAlone ==
    \A l \in 1..Len(heap) :
        (\A j \in 1..Len(heap[l]) : heap[l][j].by \in {0, 1} /\ heap[l][j].m.role # "user")
            => \A j \in ToolMessagesOf(heap[l]) : InPlace(heap[l], j)

-----------------------------------------------------------------------------
\* what exec of the n-th record of the request file does when the records before
\* it have been executed in order
RECURSIVE ExecOf(_)
ExecOf(n) ==
    Exec(REQ[n].code, 1, IF n = 1 THEN NoGlobals ELSE ExecOf(n - 1).env, <<>>, <<>>)

\* the records of the request file that carry command_id
RecordsOf(command_id) == { n \in 1..Len(REQ) : REQ[n].command_id = command_id }

(* C28: for any interleaving of calls of run_code on one sandbox, a call    *)
(* that returns returns the response the Driver produced by executing the  *)
(* code that this call appended: its command_id names exactly one record   *)
(* of the request file, the record holds the call's code, and the result   *)
(* is the decoded response of that record's execution.                     *)
C28_OwnResponse ==
    \A s \in Submits :
        subs[s].pc = "returned" =>
            /\ Cardinality(RecordsOf(subs[s].command_id)) = 1
            /\ \A n \in RecordsOf(subs[s].command_id) :
                /\ REQ[n].code = subs[s].code
                /\ subs[s].result =
                    Returned(DriverResponse(ExecOf(n).out, ExecOf(n).raised)).result

\* two overlapping calls, the later one appended its record first, and both
\* returned, with different results
C28_Witness ==
    /\ Len(subs) >= 2
    /\ subs[1].pc = "returned"
    /\ subs[2].pc = "returned"
    /\ subs[1].result # subs[2].result
    /\ REQ[1].command_id = subs[2].command_id

-----------------------------------------------------------------------------
\* the records the Driver's loop has taken from the request file and dealt with
Handled == 1..drv_pos

\* every handled record with code and command_id has its response file
C29_Created ==
    \A n \in Handled : WellFormed(REQ[n]) => REQ[n].command_id \in DOMAIN RES

\* a response file that exists is neither deleted nor written again
C29_Kept ==
    \A id \in DOMAIN RES : id \in DOMAIN RES' /\ RES'[id] = RES[id]

\* a step creates at most one response file, that of the record it handles
C29_OnePerRecord ==
    \A id \in DOMAIN RES' \ DOMAIN RES :
        /\ drv_pos' = drv_pos + 1
        /\ WellFormed(REQ[drv_pos']) /\ REQ[drv_pos'].command_id = id
        /\ DOMAIN RES' = DOMAIN RES \cup {id}

(* C29: for every request record with code and command_id that the Driver  *)
(* has handled, the response file named by the command_id has been created *)
(* (once, in the step that handled the record), and a response file is     *)
(* never rewritten or deleted afterwards.                                  *)
C29_ExactlyOnce == [][C29_Created' /\ C29_Kept /\ C29_OnePerRecord]_vars

\* the part that holds: never more than once, never rewritten, never deleted
C29_AtMostOnce == [][C29_Kept /\ C29_OnePerRecord]_vars

-----------------------------------------------------------------------------
\* the statements run to completion when the first n records of the request
\* file are executed one after the other, each to its end or to the statement
\* that raises
RECURSIVE RanUpTo(_)
RanUpTo(n) == IF n = 0 THEN <<>> ELSE RanUpTo(n - 1) \o ExecOf(n).ran

\* the response file of the n-th record exists / holds its response
Created(n) == REQ[n].command_id \in DOMAIN RES
Served(n) == Created(n) /\ IsWritten(RES[REQ[n].command_id])

\* call s gave up: every read of its response file failed
TimedOut(s) == subs[s].pc = "raised" /\ subs[s].err = "FileNotFoundError"

(* C30: the Driver executes the records of the request file one at a time, *)
(* in the order in which they stand there: what it has run so far is the   *)
(* run of the records handled so far, in order, each to its end; the       *)
(* response file of a record is not created before the responses of all    *)
(* records before it are written; and when the call that appended a record *)
(* has given up, the record is still executed and answered before any      *)
(* later record is.                                                        *)
C30_InOrder ==
    /\ drv_trace = RanUpTo(drv_pos)
    /\ \A n \in 1..Len(REQ) :
        Created(n) => n <= drv_pos /\ \A m \in 1..(n - 1) : Served(m)
    /\ \A s \in Submits :
        TimedOut(s) =>
            \A n \in RecordsOf(subs[s].command_id) :
                \A m \in (n + 1)..Len(REQ) :
                    Created(m) => Served(n) /\ Len(RanUpTo(n)) <= Len(drv_trace)

\* the first call gave up, its snippet was executed and answered all the same,
\* and only then the record after it was served, to a call that returned
C30_Witness ==
    /\ Len(subs) >= 2 /\ Len(REQ) >= 2
    /\ TimedOut(1)
    /\ REQ[1].command_id = subs[1].command_id
    /\ Served(1) /\ Served(2)
    /\ subs[2].pc = "returned"
    /\ drv_trace # <<>>

-----------------------------------------------------------------------------
\* an error that is neither the transient filesystem error nor one the caller
\* listed
Unlisted(kind) ==
    /\ kind \in OpenErrors
    /\ kind # "FilesystemExecutionError"
    /\ kind \notin osf.extra_exceptions

\* the failed opens among the first n
Failures(seen, n) == { i \in 1..n : seen[i] # "ok" }

(* C32: when an open of _open_sandbox_file fails with an error that is     *)
(* neither the transient filesystem error nor one of the kinds the caller  *)
(* listed, that error is raised to the caller at once: that open is the    *)
(* last one, no sleep follows it and nothing is yielded; when it is the    *)
(* first open, exactly one open was made and no sleep.                     *)
C32_Propagates ==
    (OpensOnly /\ osf.seen # <<>> /\ Unlisted(LastOf(osf.seen))) =>
        /\ osf.state = "raised"
        /\ osf.err = LastOf(osf.seen)
        /\ osf.opens = Len(osf.seen)
        /\ osf.sleeps = osf.opens - 1
        /\ osf.yields = 0
        /\ \A i \in 1..(Len(osf.seen) - 1) : ~Unlisted(osf.seen[i]) /\ osf.seen[i] # "ok"

\* the first open failed with FileNotFoundError, which the caller had not listed
C32_Witness ==
    /\ OpensOnly
    /\ osf.extra_exceptions = {}
    /\ osf.max_attempts = 3
    /\ osf.seen = <<"FileNotFoundError">>
    /\ osf.state = "raised"
    /\ osf.opens = 1 /\ osf.sleeps = 0

(* C34: an exception that the body of the with statement raises after the  *)
(* file was opened reaches the caller as it is, and no further open is     *)
(* made, whatever its type.                                                *)
C34_BodyErrorUnchanged ==
    osf.thrown # "" =>
        /\ osf.state = "raised"
        /\ osf.err = osf.thrown
        /\ osf.yields = 1
        /\ LastOf(osf.seen) = "ok"
        /\ Failures(osf.seen, Len(osf.seen)) = Failures(osf.seen, osf.opens - 1)

\* the same for the exceptions the call does not retry on
C34_UnlistedBodyError ==
    (osf.thrown # "" /\ Unlisted(osf.thrown)) =>
        /\ osf.state = "raised"
        /\ osf.err = osf.thrown
        /\ osf.yields = 1
        /\ LastOf(osf.seen) = "ok"

(***************************************************************************)
(* C33: the opens of the request file made by one submit                   *)
(***************************************************************************)
\* the step by which the submit in progress appends its record and starts polling
AppendsRecord ==
    /\ poll.phase = "append"
    /\ poll'.phase = "poll"

\* the step by which the submit in progress gives up appending
AppendRaises ==
    /\ poll.phase = "append"
    /\ poll'.phase = "idle"

\* C33 as stated: the append is retried up to 3 times, so a submit gives up
\* appending only after its open of the request file has failed 3 times and the
\* attempt following those has failed too
C33_ThreeRetries == [][AppendRaises => poll.stdin_opens >= 3]_vars

\* C33, amended: the request file is opened at most 3 times by one submit; a
\* submit whose open fails at most twice and then succeeds appends its record and
\* goes on to poll for the response, and the third failed open ends the submit
\* with the filesystem error
C33_ThreeAttempts ==
    [][/\ poll.phase = "append" => poll.stdin_opens = poll.attempt /\ poll.stdin_opens < 3
       /\ AppendsRecord =>
            /\ REQ' = Append(REQ, RequestLine(poll.code, poll.command_id))
            /\ poll'.stdin_opens = poll.stdin_opens + 1
            /\ poll'.command_id = poll.command_id
            /\ UNCHANGED agent_vars
       /\ AppendRaises =>
            /\ poll.stdin_opens = 2
            /\ REQ' = REQ
            /\ tool_msg'[poll.turn] =
                    ToolMsg(response[poll.turn].message.tool_calls[tool_idx[poll.turn]],
                            run_code(Raised("FilesystemExecutionError")))]_vars

\* a submit whose open of the request file failed twice and succeeded the third
\* time has appended its record and is polling for the response
C33_Witness ==
    /\ poll.phase = "poll"
    /\ poll.stdin_opens = 3
    /\ \E i \in 1..Len(REQ) : REQ[i] = RequestLine(poll.code, poll.command_id)

(***************************************************************************)
(* C31: the lines the Driver hands to the JSON parser                      *)
(***************************************************************************)
\* the newline that ends the record of command_id is in the request file
Terminated(txt, command_id) ==
    \E i \in 1..(Len(txt) - 1) :
        /\ ~txt[i].nl /\ txt[i].command_id = command_id
        /\ txt[i + 1].nl

\* C31 as stated: the Driver never parses a request record the Controller has not
\* finished appending, that is, one whose newline is not in the file yet
C31_NeverUnfinished ==
    [][\A i \in 1..Len(tl'.parsed) :
            i > Len(tl.parsed) =>
                \A j \in 1..Len(tl'.parsed[i]) :
                    Terminated(stdin_txt, tl'.parsed[i][j].command_id)]_vars

\* C31, amended: every line the Driver hands to the JSON parser is one complete
\* record, the text of exactly one write of a record, and no record is handed to
\* it twice, for every interleaving of the Driver's reads with the two writes of
\* the Controller; the Driver skips as blank the newline that arrives after it
\* read a record, and it is not stopped by the parser
C31_OneCompleteRecord ==
    /\ tl.state = "running"
    /\ \A i \in 1..Len(tl.parsed) :
        /\ Len(tl.parsed[i]) = 1
        /\ \E k \in 1..Len(stdin_txt) : stdin_txt[k] = tl.parsed[i][1]
        /\ \A j \in 1..Len(tl.parsed) : tl.parsed[j] = tl.parsed[i] => j = i

\* the Driver parsed a record whose newline was written afterwards, and skipped
\* that newline as a blank line
C31_Witness ==
    /\ tl.blanks > 0
    /\ tl.pos = Len(stdin_txt)
    /\ Len(tl.parsed) = wr.calls
    /\ wr.calls = MaxSubmits

(***************************************************************************)
(* C36: a Controller whose entry leaves the registry by expiry or eviction *)
(***************************************************************************)
\* the entry of key leaves user_sandboxes in this step without a `del`
Evicted(key) ==
    /\ user_sandboxes[key] # 0
    /\ user_sandboxes'[key] = 0
    /\ gen'[key].expiries = gen[key].expiries + 1

\* C36: whenever a user's Controller entry leaves the registry by TTL expiry or
\* capacity eviction, terminate() is called on that Controller
C36_EvictionTerminates ==
    [][\A key \in Users :
            Evicted(key) =>
                ctl'[user_sandboxes[key]].terminate_calls >
                    ctl[user_sandboxes[key]].terminate_calls]_vars

\* a Controller that is in no registry entry has had terminate() called on it
\* (every live process is reachable from the registry)
C36_NoOrphan ==
    \A id \in 1..Len(ctl) :
        (\A key \in Users : user_sandboxes[key] # id) => ctl[id].terminate_calls > 0

(***************************************************************************)
(* C37: errors of ModalSandbox.terminate()                                 *)
(***************************************************************************)
\* C37: no call of terminate() on a Controller raises, whatever the host reports
\* and however often it was called before
C37_TerminateNeverRaises ==
    \A c \in RegCalls : ~reg_calls[c].term_raised

\* the callers in tools.py swallow what terminate() raises: no reset_sandbox or
\* init_sandbox call is ended by it
C37_CallersSwallow ==
    \A c \in RegCalls : reg_calls[c].raised # "terminate"

(***************************************************************************)
(* C35: eviction by time and the last access                               *)
(***************************************************************************)
\* the entry of key leaves the cache in this step because its time has run out
TimedOutOf(name, key) ==
    /\ now' = now + 1
    /\ links[name][key].present
    /\ ~links'[name][key].present

\* C35: an entry is evicted by time only when 30 minutes have passed since the
\* last read or write of it
C35_IdleWindow ==
    [][\A name \in Caches : \A key \in Users :
            TimedOutOf(name, key) => now' - touched[name][key] >= ttl]_vars

\* what the caches do: an entry is evicted 30 minutes after it was set, whatever
\* was read in between
C35_FromInsertion ==
    [][\A name \in Caches : \A key \in Users :
            /\ TimedOutOf(name, key) => now' = links[name][key].expires
            /\ (links[name][key].present /\ links'[name][key].present)
                    => links'[name][key].expires = links[name][key].expires]_vars

(***************************************************************************)
(* C38: every figure bound after a snippet is emitted once                 *)
(***************************************************************************)
\* the number of times figure o occurs in the responses written
RECURSIVE EmittedTimes(_, _)
EmittedTimes(o, k) ==
    IF k = 0 THEN 0
    ELSE EmittedTimes(o, k - 1) + Len(SelectSeq(fig_out[k], LAMBDA x : x = o))

\* C38: each figure bound in the Driver's globals is emitted in exactly one
\* response, that of the first snippet after which it is bound
C38_EmittedOnce ==
    \A o \in 1..Len(fig_bound) :
        /\ EmittedTimes(o, Len(fig_out)) = 1
        /\ \E i \in 1..Len(fig_out[fig_bound[o]]) : fig_out[fig_bound[o]][i] = o

\* no figure is emitted twice
C38_NeverTwice ==
    \A o \in 1..Len(fig_bound) : EmittedTimes(o, Len(fig_out)) <= 1

(***************************************************************************)
(* C39: the model calls of a turn                                          *)
(***************************************************************************)
\* response r of the model carries no tool calls
WithoutToolCalls(r) == IsResponse(r) /\ IsFinal(r.message)

\* C39: a turn stops at the first model response without tool calls: such a
\* response is the last outcome of a model call the turn has, every response
\* before it asked for tools, and once it was received the generator only
\* appends and yields the final message and returns (or is closed by its consumer)
C39_StopsAtFirstFinal ==
    \A t \in Turns :
        /\ \A i \in 1..(Len(responses[t]) - 1) :
                IsResponse(responses[t][i]) /\ ~IsFinal(responses[t][i].message)
        /\ (responses[t] # <<>> /\ WithoutToolCalls(LastOf(responses[t])))
                => pc[t] \in {"msg", "emit", "final", "done", "closed"}

\* a turn made three model calls, the first two answered with tool calls, and
\* returned after the third, which had none: the loop itself counts no calls
C39_Witness ==
    \E t \in Turns :
        /\ Len(responses[t]) = 3
        /\ WithoutToolCalls(responses[t][3])
        /\ pc[t] = "done"

(***************************************************************************)
(* C40: a clear while a turn is running                                    *)
(***************************************************************************)
\* turn t has added a message to list l
AddedBy(l, t) == \E i \in 1..Len(heap[l]) : heap[l][i].by = t

\* the conversation was cleared after turn t had started: the list the turn was
\* given is no longer the one MESSAGES names
ClearedSince(t) == messages[t] # MESSAGES

\* C40: when the messages are cleared (page load or /clear) while a turn is
\* running, nothing that turn appends appears in the new conversation: the new
\* list is empty at the clear, and it never holds a message of a turn that was
\* started before the clear
C40_NewConversationClean ==
    /\ \A t \in Turns : ClearedSince(t) => ~AddedBy(MESSAGES, t)
    /\ \A l \in 1..Len(heap) : \A i \in 1..Len(heap[l]) :
            heap[l][i].by # 0 => messages[heap[l][i].by] = l

\* the conversation was cleared while a turn was running; the turn has since
\* appended a message, which is in the list the turn was given, and the new
\* conversation holds a message of its own
C40_Witness ==
    \E t \in Turns :
        /\ ClearedSince(t)
        /\ \E i \in 1..Len(heap[messages[t]]) :
                /\ heap[messages[t]][i].by = t
                /\ heap[messages[t]][i].cur = MESSAGES
        /\ heap[MESSAGES] # <<>>
=============================================================================
